---------------------------- MODULE Spec2Model ----------------------------
(***************************************************************************)
(* Generation orchestration and persistence core of the Lumina app:        *)
(* the App component (handleGenerate, handleUpscale, fetchHistory,         *)
(* deleteHistoryItem, clearHistory), the Gemini service (generateVideo and *)
(* the one-call operations) and the history server (GET/POST/DELETE over   *)
(* the SQLite table).                                                      *)
(*                                                                         *)
(* An asynchronous handler is a task: it captures the component state of   *)
(* the render in which it was started (React closures) and advances one    *)
(* segment at a time, a segment being the code between two awaits.         *)
(***************************************************************************)
EXTENDS Integers, Sequences, FiniteSets, Bags, TLC

(***************************************************************************)
(* Bounds of the model.                                                    *)
(***************************************************************************)
MaxTasks == 2
MaxRows == 2
MaxOrdered == 3
MaxSaved == 1
MaxClock == 1
MaxPolls == 2

(***************************************************************************)
(* Values.  A prompt is a sequence of words, the empty prompt is << >>.    *)
(* URLs are strings; BlobUrls are the object URLs of this session.         *)
(***************************************************************************)
Modes == {"image-edit", "video-gen", "analyze", "speech", "transcribe",
          "generate-image", "research", "summarize"}

Null == "null"
Undefined == "undefined"
EmptyPrompt == << >>
UserPrompt == <<"p">>

ImageX == "X"
AudioR == "R"

BlobUrls == {"blob:V"}

StartsWithBlob(url) == url \in BlobUrls

\* `data:${mimeType};base64,${data}`
DataUri(payload) ==
  CASE payload = "X" -> "data:X"
    [] payload = "R" -> "data:R"
    [] payload = "Y" -> "data:Y"
    [] payload = "S" -> "data:S"
    [] payload = "U" -> "data:U"
    [] payload = "V" -> "data:V"
    [] OTHER -> "data:"

\* result.url.split(',')[1]
Base64Of(url) ==
  CASE url = "data:X" -> "X"
    [] url = "data:R" -> "R"
    [] url = "data:Y" -> "Y"
    [] url = "data:S" -> "S"
    [] url = "data:U" -> "U"
    [] url = "data:V" -> "V"
    [] OTHER -> Undefined

\* fetch(blobUrl).then(r => r.blob()) and FileReader.readAsDataURL
BlobBytes(url) == IF url = "blob:V" THEN "V" ELSE Undefined
ReadAsDataURL(url) == DataUri(BlobBytes(url))

\* JavaScript truthiness of a string-or-null value, of a prompt and of an id
Truthy(v) == v \notin {Null, Undefined, ""}
TruthyPrompt(p) == p # EmptyPrompt
TruthyId(id) == id # 0

\* An optional array (sources): undefined, null or an array of items;
\* JSON.stringify and JSON.parse convert between the array and its text.
SrcUndefined == [kind |-> "undefined", items |-> << >>]
SrcNull == [kind |-> "null", items |-> << >>]
SrcArray(items) == [kind |-> "array", items |-> items]
JSONStringify(v) == [kind |-> "json", items |-> v.items]
JSONParse(j) == [kind |-> "array", items |-> j.items]
TruthySrc(v) == v.kind \in {"array", "json"}

RECURSIVE SelectSeqBy(_, _)
\* Array.prototype.filter on entries by id: keeps the entries whose id is not `id`
SelectSeqBy(s, id) ==
  IF s = << >> THEN << >>
  ELSE IF Head(s).id # id THEN <<Head(s)>> \o SelectSeqBy(Tail(s), id)
       ELSE SelectSeqBy(Tail(s), id)

(***************************************************************************)
(* State.                                                                  *)
(***************************************************************************)
VARIABLES
  mode, prompt, uploadedImage, recordedAudio, aspectRatio,   \* App inputs
  hasKey, error, isGenerating, results,                      \* App state
  envKey,        \* process.env.GEMINI_API_KEY is set
  aistudio,      \* window.aistudio is defined
  keySelected,   \* what window.aistudio.hasSelectedApiKey() answers
  savedKey,      \* localStorage holds a non-empty 'lumina_api_key'
  store,         \* rows of table history, in rowid order
  seq,           \* AUTOINCREMENT: the largest id ever assigned
  clock,         \* CURRENT_TIMESTAMP of the server, in seconds
  tasks          \* the asynchronous handlers in flight

inputs == <<mode, prompt, uploadedImage, recordedAudio, aspectRatio>>
env == <<envKey, aistudio, keySelected, savedKey>>
db == <<store, seq>>
vars == <<mode, prompt, uploadedImage, recordedAudio, aspectRatio, hasKey, error,
          isGenerating, results, envKey, aistudio, keySelected, savedKey, store, seq,
          clock,
          tasks>>

NoEntry == [id |-> 0, type |-> "", url |-> "", prompt |-> EmptyPrompt,
            text |-> Undefined, sources |-> SrcUndefined]
NoBody == [type |-> "", data |-> "", prompt |-> EmptyPrompt, text |-> Undefined,
           sources |-> SrcUndefined]
NoResp == [status |-> "none", item |-> NoEntry, rows |-> << >>]
NoRequest == [operation |-> "", media |-> Null, text |-> EmptyPrompt, aspect |-> ""]

\* The fields of a handler in flight: its place (pc), the component state its
\* closure captured, its locals, and the request it awaits with its response.
NewTask == [op |-> "", pc |-> "", mode |-> "", prompt |-> EmptyPrompt,
            image |-> Null, audio |-> Null, aspect |-> "", results |-> << >>,
            id |-> 0, idx |-> 0, result |-> NoEntry, body |-> NoBody, resp |-> NoResp,
            doneAt |-> 0, opDone |-> FALSE, hasUri |-> FALSE, queries |-> 0,
            waits |-> 0, downloads |-> 0, auth |-> FALSE, apiKey |-> "",
            request |-> NoRequest]

InFlight == BagToSet(tasks)

\* Starting a handler
Start(task) ==
  /\ BagCardinality(tasks) < MaxTasks
  /\ tasks' = tasks (+) SetToBag({task})

\* A handler reaching its next await
Step(t, next) == tasks' = (tasks (-) SetToBag({t})) (+) SetToBag({next})

\* A handler that returns
Finish(t) == tasks' = tasks (-) SetToBag({t})

(***************************************************************************)
(* The history server (server.ts): three routes over table history.        *)
(***************************************************************************)
\* CURRENT_TIMESTAMP has a resolution of one second: the clock advances
\* between requests or it does not.
Tick ==
  /\ clock < MaxClock
  /\ clock' = clock + 1
  /\ UNCHANGED <<inputs, hasKey, error, isGenerating, results, env, db, tasks>>

Awaiting(t) == t.pc = "sent"

\* SELECT * FROM history ORDER BY timestamp DESC: every order of the rows in
\* which the timestamps do not increase (rows of one second come in any order).
ListOutcomes(rows) ==
  LET n == Len(rows)
      perms == {f \in [1..n -> 1..n] : \A i, j \in 1..n : i # j => f[i] # f[j]}
      sorted(f) == \A i \in 1..n : \A j \in 1..n :
                     i < j => rows[f[i]].timestamp >= rows[f[j]].timestamp
  IN {[i \in 1..n |-> rows[f[i]]] : f \in {g \in perms : sorted(g)}}

\* A handler's request answered by the server
Answer(t, status, item, rows) ==
  Step(t, [t EXCEPT !.pc = "answered",
                    !.resp = [status |-> status, item |-> item, rows |-> rows]])

\* app.get("/api/history"); dbOk: the statement does not throw
ServerList(t, dbOk) ==
  /\ t.op \in {"fetch"} /\ Awaiting(t)
  /\ IF dbOk
     THEN \E rows \in ListOutcomes(store) : Answer(t, "ok", NoEntry, rows)
     ELSE Answer(t, "500", NoEntry, << >>)
  /\ UNCHANGED <<inputs, hasKey, error, isGenerating, results, env, db, clock>>

\* A route that does not look at the prompt
MissingRequiredFields_noPrompt(body) ==
  \/ ~Truthy(body.type)
  \/ ~Truthy(body.data)

\* The check of the body: if (!type || !data || !prompt) return 400
MissingRequiredFields(body) ==
  \/ ~Truthy(body.type)
  \/ ~Truthy(body.data)
  \/ ~TruthyPrompt(body.prompt)

\* The row INSERT writes: text undefined is bound as NULL, sources is the JSON
\* text of the array or NULL
InsertedRow(id, body, now) ==
  [id |-> id, type |-> body.type, data |-> body.data, prompt |-> body.prompt,
   text |-> IF body.text = Undefined THEN Null ELSE body.text,
   sources |-> IF TruthySrc(body.sources) THEN JSONStringify(body.sources) ELSE SrcNull,
   timestamp |-> now]

\* res.json({ id: info.lastInsertRowid, type, data, prompt, text, sources })
CreatedItem(id, body) ==
  [id |-> id, type |-> body.type, url |-> body.data, prompt |-> body.prompt,
   text |-> body.text, sources |-> body.sources]

\* app.post("/api/history")
ServerCreate(t, dbOk) ==
  /\ t.op \in {"generate", "upscale", "post"} /\ Awaiting(t)
  /\ IF MissingRequiredFields(t.body)
     THEN Answer(t, "400", NoEntry, << >>) /\ UNCHANGED db
     ELSE IF dbOk
     THEN /\ seq' = seq + 1
          /\ store' = Append(store, InsertedRow(seq + 1, t.body, clock))
          /\ Answer(t, "ok", CreatedItem(seq + 1, t.body), << >>)
     ELSE Answer(t, "500", NoEntry, << >>) /\ UNCHANGED db
  /\ UNCHANGED <<inputs, hasKey, error, isGenerating, results, env, clock>>

\* DELETE FROM history WHERE id = ?
DeleteRow(rows, id) == SelectSeq(rows, LAMBDA r : r.id # id)

\* app.delete("/api/history/:id")
ServerDelete(t, dbOk) ==
  /\ t.op \in {"delete", "clear", "remove"} /\ Awaiting(t)
  /\ IF dbOk
     THEN store' = DeleteRow(store, t.id) /\ Answer(t, "ok", NoEntry, << >>)
     ELSE UNCHANGED store /\ Answer(t, "500", NoEntry, << >>)
  /\ UNCHANGED <<inputs, hasKey, error, isGenerating, results, env, seq, clock>>

\* req.body of a create request from any client of the API
ApiCreate(body) ==
  /\ Start([NewTask EXCEPT !.op = "post", !.pc = "sent", !.body = body])
  /\ UNCHANGED <<inputs, hasKey, error, isGenerating, results, env, db, clock>>

\* req.params.id of a delete request from any client of the API
ApiDelete(id) ==
  /\ Start([NewTask EXCEPT !.op = "remove", !.pc = "sent", !.id = id])
  /\ UNCHANGED <<inputs, hasKey, error, isGenerating, results, env, db, clock>>

\* The response of the route delivered to that client
ApiAnswered(t) ==
  /\ t.op \in {"post", "remove"} /\ t.pc = "answered"
  /\ Finish(t)
  /\ UNCHANGED <<inputs, hasKey, error, isGenerating, results, env, db, clock>>

\* fetch() rejects: the request is lost before the server sees it, or its
\* response is lost after the server has handled it.
NetworkError(t) ==
  /\ t.pc \in {"sent", "answered"}
  /\ t.resp.status # "neterr"
  /\ Answer(t, "neterr", NoEntry, << >>)
  /\ UNCHANGED <<inputs, hasKey, error, isGenerating, results, env, db, clock>>

\* A client that takes every response for an OK one
ResponseOk_any(resp) == TRUE
\* response.ok
ResponseOk(resp) == resp.status = "ok"

\* A client for which a response that is not OK rejects as well
Rejected_notOk(resp) == resp.status # "ok"
\* await fetch(...) rejects
Rejected(resp) == resp.status = "neterr"

(***************************************************************************)
(* History Synchronizer (App.tsx).                                         *)
(***************************************************************************)
\* Map 'data' from DB to 'url' for the UI
EntryOfRow(item) ==
  [id |-> item.id, type |-> item.type, url |-> item.data, prompt |-> item.prompt,
   text |-> item.text,
   sources |-> IF TruthySrc(item.sources) THEN JSONParse(item.sources) ELSE SrcUndefined]

\* A reload that merges: the entries the response does not hold are kept
MapRows_merged(rows) ==
  [i \in 1..Len(rows) |-> EntryOfRow(rows[i])]
    \o SelectSeq(results, LAMBDA r : \A i \in 1..Len(rows) : rows[i].id # r.id)

MapRows(rows) == [i \in 1..Len(rows) |-> EntryOfRow(rows[i])]

\* fetchHistory, up to its await fetch('/api/history')
FetchHistoryTask == [NewTask EXCEPT !.op = "fetch", !.pc = "sent"]

\* onClick={fetchHistory}
FetchHistory ==
  /\ Start(FetchHistoryTask)
  /\ UNCHANGED <<inputs, hasKey, error, isGenerating, results, env, db, clock>>

\* fetchHistory, after the await
FetchHistoryDone(t) ==
  /\ t.op = "fetch" /\ t.pc = "answered"
  /\ results' = IF ResponseOk(t.resp) THEN MapRows(t.resp.rows) ELSE results
  /\ Finish(t)
  /\ UNCHANGED <<inputs, hasKey, error, isGenerating, env, db, clock>>

\* onClick={() => result.id && deleteHistoryItem(result.id)}
DeleteHistoryItem(id) ==
  /\ \E i \in 1..Len(results) : results[i].id = id
  /\ TruthyId(id)
  /\ Start([NewTask EXCEPT !.op = "delete", !.pc = "sent", !.id = id,
                           !.results = results])
  /\ UNCHANGED <<inputs, hasKey, error, isGenerating, results, env, db, clock>>

\* deleteHistoryItem, after the await: results.filter(r => r.id !== id) on the
\* list the closure captured
DeleteHistoryItemDone(t) ==
  /\ t.op = "delete" /\ t.pc = "answered"
  /\ results' = IF ResponseOk(t.resp) THEN SelectSeqBy(t.results, t.id) ELSE results
  /\ Finish(t)
  /\ UNCHANGED <<inputs, hasKey, error, isGenerating, env, db, clock>>

\* A loop that passes over the entry at index i
NextWithId_skipping(list, i) == IF i < Len(list) THEN i + 1 ELSE 0
\* The next entry of the captured list that has an id, from index i on (0: none)
NextWithId(list, i) ==
  LET later == {k \in i..Len(list) : TruthyId(list[k].id)}
  IN IF later = {} THEN 0 ELSE CHOOSE k \in later : \A j \in later : k <= j

\* onClick={clearHistory}: confirm(), then the loop up to its first await
ClearHistory ==
  \E confirmed \in BOOLEAN :
    IF ~confirmed
    THEN UNCHANGED vars
    ELSE LET k == NextWithId(results, 1)
         IN /\ IF k = 0
               THEN results' = << >> /\ UNCHANGED tasks
               ELSE /\ Start([NewTask EXCEPT !.op = "clear", !.pc = "sent", !.idx = k,
                                             !.id = results[k].id, !.results = results])
                    /\ UNCHANGED results
            /\ UNCHANGED <<inputs, hasKey, error, isGenerating, env, db, clock>>

\* clearHistory, after an await of the loop: the response is not looked at; a
\* rejected fetch leaves the loop through catch
ClearHistoryNext(t) ==
  /\ t.op = "clear" /\ t.pc = "answered"
  /\ IF Rejected(t.resp)
     THEN Finish(t) /\ UNCHANGED results
     ELSE LET k == NextWithId(t.results, t.idx + 1)
          IN IF k = 0
             THEN results' = << >> /\ Finish(t)
             ELSE /\ Step(t, [t EXCEPT !.pc = "sent", !.idx = k, !.id = t.results[k].id,
                                       !.resp = NoResp])
                  /\ UNCHANGED results
  /\ UNCHANGED <<inputs, hasKey, error, isGenerating, env, db, clock>>

(***************************************************************************)
(* Provider Gateway (geminiService.ts).  A provider call ends in one of    *)
(* four ways: it returns content, it returns a response without content,   *)
(* it fails, or it fails reporting the credential as not found.            *)
(***************************************************************************)
ProviderOutcomes == {"content", "nothing", "error", "notfound"}

NotFoundMessage == "Requested entity was not found."
ProviderMessage == "provider error"
DownloadMessage == "Failed to download video"
FetchMessage == "Failed to fetch"
NoContentMessage == "The AI model returned no content."
ExpiredMessage == "API_KEY_EXPIRED"

\* What the provider's failure carries as error.message
RaisedBy(outcome) == IF outcome = "notfound" THEN NotFoundMessage ELSE ProviderMessage

\* The grounding chunks a research answer may carry: none at all, two
\* citations of which the second has no URI, one without a title, or three of
\* which the second has no URI and the third no title
Chunk(title, uri) == [title |-> title, uri |-> uri]
ChunkLists == {<< >>, <<Chunk("A", "u1"), Chunk("B", Undefined)>>,
               <<Chunk(Undefined, "u2")>>,
               <<Chunk("A", "u1"), Chunk("B", Undefined), Chunk(Undefined, "u2")>>}

\* A researchWithSearch that maps the chunks and does not filter them
SourcesOf_unfiltered(chunks) ==
  [i \in 1..Len(chunks) |->
     [title |-> IF Truthy(chunks[i].title) THEN chunks[i].title ELSE "Source",
      uri |-> chunks[i].uri]]
\* groundingChunks?.map(chunk => ({title: chunk.web?.title || "Source",
\*                                 uri: chunk.web?.uri})).filter(s => s.uri) || []
SourcesOf(chunks) ==
  LET mapped == [i \in 1..Len(chunks) |->
                   [title |-> IF Truthy(chunks[i].title) THEN chunks[i].title ELSE "Source",
                    uri |-> chunks[i].uri]]
  IN SelectSeq(mapped, LAMBDA x : Truthy(x.uri))

\* The same on the grounding metadata of the answer: without metadata the
\* optional chain yields undefined and `|| []` the empty array
SourcesOfMetadata(present, chunks) == IF present THEN SourcesOf(chunks) ELSE << >>

\* What a Gateway operation hands back: a value (url, text, sources) or an error
Returned(url, text, sources) ==
  [thrown |-> "", url |-> url, text |-> text, sources |-> sources]
Thrown(message) ==
  [thrown |-> message, url |-> Null, text |-> Undefined, sources |-> SrcUndefined]

\* editImage, generateImage, upscaleImage: the first inline part as a data URI,
\* or null; the catch block rethrows the provider's error as it is
InlineImage(outcome, payload) ==
  CASE outcome = "content" -> Returned(DataUri(payload), Undefined, SrcUndefined)
    [] outcome = "nothing" -> Returned(Null, Undefined, SrcUndefined)
    [] OTHER -> Thrown(RaisedBy(outcome))

editImage(outcome) == InlineImage(outcome, "Y")
generateImage(outcome) == InlineImage(outcome, "Y")
upscaleImage(outcome) == InlineImage(outcome, "U")
generateSpeech(outcome) == InlineImage(outcome, "S")

\* analyzeImage, transcribeAudio, summarizeUrl: response.text || a default text
TextOr(outcome, default) ==
  CASE outcome = "content" -> Returned(Null, "T", SrcUndefined)
    [] outcome = "nothing" -> Returned(Null, default, SrcUndefined)
    [] OTHER -> Thrown(RaisedBy(outcome))

analyzeImage(outcome) == TextOr(outcome, "No analysis generated.")
transcribeAudio(outcome) == TextOr(outcome, "No transcription generated.")
summarizeUrl(outcome) == TextOr(outcome, "Failed to summarize URL.")

researchWithSearch(outcome, chunks) ==
  CASE outcome = "content" -> Returned(Null, "T", SrcArray(SourcesOf(chunks)))
    [] outcome = "nothing" -> Returned(Null, "No research results.", SrcArray(SourcesOf(chunks)))
    [] OTHER -> Thrown(RaisedBy(outcome))

\* A generateVideo whose catch block reports every error as an expired key
VideoThrown_allExpired(message) == Thrown(ExpiredMessage)
\* A generateVideo whose catch block rethrows every error as it is
VideoThrown_raw(message) == Thrown(message)
\* The catch block of generateVideo
VideoThrown(message) ==
  IF message = NotFoundMessage THEN Thrown(ExpiredMessage) ELSE Thrown(message)

\* getApiKey: the saved key if there is one, else the key of the environment
\* (process.env.API_KEY is taken to be unset), else the empty string
getApiKey ==
  IF savedKey THEN "lumina_api_key"
  ELSE IF envKey THEN "GEMINI_API_KEY"
  ELSE ""

\* A checkVeoKey without the fallback for an environment without the interface
checkVeoKey_strict == keySelected
\* checkVeoKey
checkVeoKey == IF ~aistudio THEN TRUE ELSE keySelected

(***************************************************************************)
(* Mode Dispatcher: handleGenerate (App.tsx).                              *)
(***************************************************************************)
\* A dispatcher that checks the prompt in two of the five modes only
PromptModes_two == {"video-gen", "speech"}
\* The modes whose first check is !prompt
PromptModes == {"video-gen", "speech", "generate-image", "research", "summarize"}
ImageModes == {"image-edit", "analyze"}
AudioModes == {"transcribe"}

\* `Please enter a prompt or URL for ${mode} generation.`
PromptMessage(m) ==
  CASE m = "video-gen" -> "Please enter a prompt or URL for video-gen generation."
    [] m = "speech" -> "Please enter a prompt or URL for speech generation."
    [] m = "generate-image" -> "Please enter a prompt or URL for generate-image generation."
    [] m = "research" -> "Please enter a prompt or URL for research generation."
    [] m = "summarize" -> "Please enter a prompt or URL for summarize generation."
    [] OTHER -> "Please enter a prompt or URL for generation."
ImageMessage == "Please upload an image."
AudioMessage == "Please record some audio first."
GenericMessage == "Generation failed. Please try again."
ExpiredKeyMessage == "API Key expired or invalid. Please select a valid paid project key."
UpscaleMessage == "Upscaling failed. Please try again."

\* The three checks that open handleGenerate: the message of the first that
\* fails, or Null when the inputs pass
ValidationError(m, p, image, audio) ==
  IF ~TruthyPrompt(p) /\ m \in PromptModes THEN PromptMessage(m)
  ELSE IF image = Null /\ m \in ImageModes THEN ImageMessage
  ELSE IF audio = Null /\ m \in AudioModes THEN AudioMessage
  ELSE Null

\* A handleGenerate without the key gate
NeedsKeyDialog_never(m, key) == FALSE
\* if (mode === 'video-gen' && !hasKey)
NeedsKeyDialog(m, key) == m = "video-gen" /\ ~key

\* if (!process.env.GEMINI_API_KEY) throw ...
MissingEnvKey == ~envKey

\* What the closure of a handleGenerate invocation captures
GenerateTask ==
  [NewTask EXCEPT !.op = "generate", !.mode = mode, !.prompt = prompt,
                  !.image = uploadedImage, !.audio = recordedAudio,
                  !.aspect = aspectRatio, !.results = results]

\* What a Gateway operation sends to the provider: the operation, the inline
\* data, the text part and the aspect ratio
Request(operation, media, text, aspect) ==
  [operation |-> operation, media |-> media, text |-> text, aspect |-> aspect]

\* A dispatcher that hands the prompt to transcribeAudio as its instruction
ProviderRequest_prompted(m, p, image, audio, aspect) ==
  CASE m = "image-edit" ->
         Request("editImage", image,
                 IF TruthyPrompt(p) THEN p ELSE <<"Enhance this image">>, "")
    [] m = "video-gen" -> Request("generateVideo", image, p, aspect)
    [] m = "analyze" ->
         Request("analyzeImage", image,
                 IF TruthyPrompt(p) THEN p ELSE <<"Analyze this image in detail.">>, "")
    [] m = "speech" -> Request("generateSpeech", Null, p, "")
    [] m = "transcribe" ->
         Request("transcribeAudio", audio,
                 IF TruthyPrompt(p) THEN p ELSE <<"Transcribe this audio accurately.">>, "")
    [] m = "generate-image" -> Request("generateImage", Null, p, "1:1")
    [] m = "research" -> Request("researchWithSearch", Null, p, "")
    [] m = "summarize" ->
         Request("summarizeUrl", Null, <<"Summarize the content of this URL:">> \o p, "")
    [] OTHER -> NoRequest
\* The call of the mode in handleGenerate with the contents the Gateway
\* operation builds from its arguments
ProviderRequest(m, p, image, audio, aspect) ==
  CASE m = "image-edit" ->
         Request("editImage", image,
                 IF TruthyPrompt(p) THEN p ELSE <<"Enhance this image">>, "")
    [] m = "video-gen" -> Request("generateVideo", image, p, aspect)
    [] m = "analyze" ->
         Request("analyzeImage", image,
                 IF TruthyPrompt(p) THEN p ELSE <<"Analyze this image in detail.">>, "")
    [] m = "speech" -> Request("generateSpeech", Null, p, "")
    [] m = "transcribe" ->
         Request("transcribeAudio", audio, <<"Transcribe this audio accurately.">>, "")
    [] m = "generate-image" -> Request("generateImage", Null, p, "1:1")
    [] m = "research" -> Request("researchWithSearch", Null, p, "")
    [] m = "summarize" ->
         Request("summarizeUrl", Null, <<"Summarize the content of this URL:">> \o p, "")
    [] OTHER -> NoRequest

\* The await a handleGenerate reaches first in its try block
FirstAwait(m) == IF m = "video-gen" THEN "issue" ELSE "provider"

\* resultType
ResultType(m) ==
  CASE m = "image-edit" -> "image"
    [] m = "video-gen" -> "video"
    [] m = "analyze" -> "analysis"
    [] m = "speech" -> "audio"
    [] m = "transcribe" -> "transcription"
    [] m = "generate-image" -> "image"
    [] m = "research" -> "research"
    [] m = "summarize" -> "summary"
    [] OTHER -> "image"

\* resultUrl once the Gateway operation of the mode has returned r
ResultUrl(t, r) ==
  CASE t.mode = "analyze" -> DataUri(t.image)
    [] t.mode = "transcribe" -> DataUri(t.audio)
    [] t.mode \in {"research", "summarize"} -> ""
    [] OTHER -> r.url

\* A handleGenerate without the check for an empty result
NoContent_never(url, text) == FALSE
\* if (resultUrl === null && !resultText) throw ...
NoContent(url, text) == url = Null /\ ~Truthy(text)

\* A dispatcher that persists the URL as generateVideo returned it
Materialize_asReturned(m, url) == IF Truthy(url) THEN url ELSE ""
\* if (mode === 'video-gen' && resultUrl && resultUrl.startsWith('blob:')):
\* the URL is fetched and its bytes are read
FetchesBlob(m, url) == m = "video-gen" /\ Truthy(url) /\ StartsWithBlob(url)

\* A dispatcher that fetches and encodes every URL of a video, durable or not
Materialize_reencoding(m, url) ==
  IF m = "video-gen" /\ Truthy(url)
  THEN ReadAsDataURL(url)
  ELSE IF Truthy(url) THEN url ELSE ""
\* persistentData: resultUrl || '', a blob URL of a video read back as a data URI
Materialize(m, url) ==
  IF FetchesBlob(m, url)
  THEN ReadAsDataURL(url)
  ELSE IF Truthy(url) THEN url ELSE ""

\* A dispatcher that sends the prompt as it was typed
PromptOrLabel_asTyped(m, p) == p
\* prompt || (mode === 'image-edit' ? "Image Edit" : mode === 'analyze' ? ...)
PromptOrLabel(m, p) ==
  IF TruthyPrompt(p) THEN p
  ELSE IF m = "image-edit" THEN <<"Image Edit">>
  ELSE IF m = "analyze" THEN <<"Image Analysis">>
  ELSE <<"Generation">>

\* A handleGenerate that reads the mode of the latest render, not the one its
\* closure captured, when it builds the body
GenerateBody_currentMode(t, r) ==
  [type |-> ResultType(mode),
   data |-> Materialize(mode, ResultUrl(t, r)),
   prompt |-> PromptOrLabel(mode, t.prompt),
   text |-> r.text,
   sources |-> r.sources]
\* The body of the POST of handleGenerate
GenerateBody(t, r) ==
  [type |-> ResultType(t.mode),
   data |-> Materialize(t.mode, ResultUrl(t, r)),
   prompt |-> PromptOrLabel(t.mode, t.prompt),
   text |-> r.text,
   sources |-> r.sources]

\* A catch block that shows the expiry message and keeps the key flag
HandleGenerateCatch_keepsKey(message, key) ==
  /\ hasKey' = key
  /\ error' = IF message = ExpiredMessage THEN ExpiredKeyMessage ELSE GenericMessage
  /\ isGenerating' = FALSE

\* catch (err) { ... } finally { setIsGenerating(false) } of handleGenerate;
\* key is hasKey as the invocation has set it so far
HandleGenerateCatch(message, key) ==
  /\ hasKey' = IF message = ExpiredMessage THEN FALSE ELSE key
  /\ error' = IF message = ExpiredMessage THEN ExpiredKeyMessage ELSE GenericMessage
  /\ isGenerating' = FALSE

EnvKeyMessage == "Gemini API Key is missing."

\* handleGenerate from setIsGenerating(true) to its first await; `starting` is
\* TRUE when the click runs it, FALSE when it follows the key dialog of task t;
\* key is hasKey as the invocation has set it so far
HandleGenerateTry(t, starting, key) ==
  IF MissingEnvKey
  THEN /\ HandleGenerateCatch(EnvKeyMessage, key)
       /\ IF starting THEN UNCHANGED tasks ELSE Finish(t)
  ELSE /\ hasKey' = key
       /\ error' = Null
       /\ isGenerating' = TRUE
       /\ LET next == [t EXCEPT !.pc = FirstAwait(t.mode), !.apiKey = getApiKey,
                                 !.request = ProviderRequest(t.mode, t.prompt, t.image,
                                                             t.audio, t.aspect)]
          IN IF starting THEN Start(next) ELSE Step(t, next)


\* onClick={handleGenerate}, enabled while !isGenerating
HandleGenerate ==
  /\ ~isGenerating
  /\ LET invalid == ValidationError(mode, prompt, uploadedImage, recordedAudio)
     IN IF invalid # Null
        THEN error' = invalid /\ UNCHANGED <<hasKey, isGenerating, tasks>>
        ELSE IF NeedsKeyDialog(mode, hasKey)
        THEN /\ Start([GenerateTask EXCEPT !.pc = "dialog"])
             /\ UNCHANGED <<hasKey, error, isGenerating>>
        ELSE HandleGenerateTry(GenerateTask, TRUE, hasKey)
  /\ UNCHANGED <<inputs, results, env, db, clock>>

\* await openVeoKeyDialog(); const selected = await checkVeoKey();
\* setHasKey(selected); if (!selected) return;
KeyDialogClosed(t) ==
  /\ t.op = "generate" /\ t.pc = "dialog"
  /\ \E chosen \in BOOLEAN :
       /\ keySelected' = IF aistudio THEN chosen ELSE keySelected
       /\ LET selected == IF ~aistudio THEN TRUE ELSE chosen
          IN IF ~selected
             THEN hasKey' = selected /\ Finish(t) /\ UNCHANGED <<error, isGenerating>>
             ELSE HandleGenerateTry(t, FALSE, selected)
  /\ UNCHANGED <<inputs, results, envKey, aistudio, savedKey, db, clock>>

\* await openVeoKeyDialog() or await checkVeoKey() rejects: the two awaits
\* stand before the try block, so the promise of handleGenerate rejects with
\* nothing set
KeyDialogRejected(t) ==
  /\ aistudio
  /\ t.op = "generate" /\ t.pc = "dialog"
  /\ Step(t, [t EXCEPT !.pc = "unhandled"])
  /\ UNCHANGED <<inputs, hasKey, error, isGenerating, results, env, db, clock>>

\* The rejected promise of a handler nobody awaits: the browser reports an
\* unhandled rejection and drops it
UnhandledRejection(t) ==
  /\ t.pc = "unhandled"
  /\ Finish(t)
  /\ UNCHANGED <<inputs, hasKey, error, isGenerating, results, env, db, clock>>

\* The try block of handleGenerate once the Gateway operation has settled
\* with r, up to await fetch('/api/history', POST)
HandleGenerateSettled(t, r) ==
  IF r.thrown # ""
  THEN HandleGenerateCatch(r.thrown, hasKey) /\ Finish(t)
  ELSE IF NoContent(ResultUrl(t, r), r.text)
  THEN HandleGenerateCatch(NoContentMessage, hasKey) /\ Finish(t)
  ELSE /\ Step(t, [t EXCEPT !.pc = "sent", !.body = GenerateBody(t, r)])
       /\ UNCHANGED <<hasKey, error, isGenerating>>

\* The Gateway operation of a mode other than video-gen
Gateway(m, outcome, chunks) ==
  CASE m = "image-edit" -> editImage(outcome)
    [] m = "analyze" -> analyzeImage(outcome)
    [] m = "speech" -> generateSpeech(outcome)
    [] m = "transcribe" -> transcribeAudio(outcome)
    [] m = "generate-image" -> generateImage(outcome)
    [] m = "research" -> researchWithSearch(outcome, chunks)
    [] m = "summarize" -> summarizeUrl(outcome)
    [] OTHER -> Thrown(ProviderMessage)

\* The provider answers the one call of a Gateway operation
ProviderAnswers(t) ==
  /\ t.op = "generate" /\ t.pc = "provider"
  /\ \E outcome \in ProviderOutcomes :
       \E chunks \in (IF t.mode = "research" /\ outcome \in {"content", "nothing"}
                      THEN ChunkLists ELSE {<< >>}) :
         HandleGenerateSettled(t, Gateway(t.mode, outcome, chunks))
  /\ UNCHANGED <<inputs, results, env, db, clock>>

\* newResult of the saved item
SavedResult(item) ==
  [id |-> item.id, type |-> item.type, url |-> item.url, prompt |-> item.prompt,
   text |-> item.text, sources |-> item.sources]

\* setResults(prev => [newResult, ...prev]): a prepend to the list of the
\* moment
Prepend_toCurrent(item, list) == <<item>> \o results
\* setResults([newResult, ...results]) on the list the closure captured
Prepend(item, list) == <<item>> \o list

\* A handleGenerate that clears the prompt and the recording whatever the
\* status of the answer
HandleGenerateSaved_clearsAlways(t) ==
  /\ t.op = "generate" /\ t.pc = "answered"
  /\ IF Rejected(t.resp)
     THEN /\ HandleGenerateCatch(FetchMessage, hasKey)
          /\ UNCHANGED <<prompt, recordedAudio, results>>
     ELSE /\ results' = IF ResponseOk(t.resp)
                        THEN Prepend(SavedResult(t.resp.item), t.results)
                        ELSE results
          /\ prompt' = EmptyPrompt
          /\ recordedAudio' = Null
          /\ isGenerating' = FALSE
          /\ UNCHANGED <<hasKey, error>>
  /\ Finish(t)
  /\ UNCHANGED <<mode, uploadedImage, aspectRatio, env, db, clock>>

\* handleGenerate after await fetch('/api/history', POST)
HandleGenerateSaved(t) ==
  /\ t.op = "generate" /\ t.pc = "answered"
  /\ IF Rejected(t.resp)
     THEN /\ HandleGenerateCatch(FetchMessage, hasKey)
          /\ UNCHANGED <<prompt, recordedAudio, results>>
     ELSE /\ IF ResponseOk(t.resp)
             THEN /\ results' = Prepend(SavedResult(t.resp.item), t.results)
                  /\ prompt' = EmptyPrompt
                  /\ recordedAudio' = Null
             ELSE UNCHANGED <<prompt, recordedAudio, results>>
          /\ isGenerating' = FALSE
          /\ UNCHANGED <<hasKey, error>>
  /\ Finish(t)
  /\ UNCHANGED <<mode, uploadedImage, aspectRatio, env, db, clock>>

(***************************************************************************)
(* Long-Running Operation Poller: generateVideo (geminiService.ts).        *)
(***************************************************************************)
\* The provider finishes the video job at its doneAt-th status query (at once
\* when doneAt = 0): the handle it hands back after `answered` queries
HandleDone(doneAt, answered) == answered >= doneAt

\* A job the provider never reports done: no number of status queries reaches
\* its doneAt
Never == MaxPolls + 2

\* The count of the waits and of the queries of a poller, exact up to
\* MaxPolls + 1 (a job that gets done is done by then)
Count(n) == IF n > MaxPolls THEN n ELSE n + 1

\* A poller with the loop condition inverted
PollAgain_inverted(done) == done
\* while (!operation.done): does the loop run (again) on this handle
PollAgain(done) == ~done

\* A generateVideo that requests the download without looking for the URI
VideoAfterLoop_alwaysDownloads(t, handle) ==
  /\ Step(t, [handle EXCEPT !.pc = "download", !.downloads = @ + 1, !.auth = TRUE])
  /\ UNCHANGED <<hasKey, error, isGenerating>>
\* After the loop: no video URI returns null, else the download is requested
\* with the key in header x-goog-api-key
VideoAfterLoop(t, handle) ==
  IF ~handle.hasUri
  THEN HandleGenerateSettled(t, Returned(Null, Undefined, SrcUndefined))
  ELSE /\ Step(t, [handle EXCEPT !.pc = "download", !.downloads = @ + 1, !.auth = TRUE])
       /\ UNCHANGED <<hasKey, error, isGenerating>>

\* generateVideo after a handle has come back: wait and query, or go on
VideoLoop(t, handle) ==
  IF PollAgain(handle.opDone)
  THEN /\ Step(t, [handle EXCEPT !.pc = "wait"])
       /\ UNCHANGED <<hasKey, error, isGenerating>>
  ELSE VideoAfterLoop(t, handle)

\* let operation = await ai.models.generateVideos(config)
VideoIssued(t) ==
  /\ t.op = "generate" /\ t.pc = "issue"
  /\ \/ \E outcome \in {"error", "notfound"} :
          HandleGenerateSettled(t, VideoThrown(RaisedBy(outcome)))
     \/ \E n \in 0..MaxPolls, uri \in BOOLEAN :
          VideoLoop(t, [t EXCEPT !.doneAt = n, !.hasUri = uri,
                                 !.opDone = HandleDone(n, 0)])
  /\ UNCHANGED <<inputs, results, env, db, clock>>

\* let operation = await ai.models.generateVideos(config), for a job that the
\* provider never reports done
VideoIssuedNeverDone(t) ==
  /\ t.op = "generate" /\ t.pc = "issue"
  /\ VideoLoop(t, [t EXCEPT !.doneAt = Never, !.hasUri = FALSE,
                            !.opDone = HandleDone(Never, 0)])
  /\ UNCHANGED <<inputs, results, env, db, clock>>

\* await new Promise(resolve => setTimeout(resolve, 10000)), then the status
\* query is sent
VideoWaited(t) ==
  /\ t.op = "generate" /\ t.pc = "wait"
  /\ Step(t, [t EXCEPT !.pc = "query", !.waits = Count(@)])
  /\ UNCHANGED <<inputs, hasKey, error, isGenerating, results, env, db, clock>>

\* operation = await ai.operations.getVideosOperation({ operation })
VideoQueried(t) ==
  /\ t.op = "generate" /\ t.pc = "query"
  /\ \/ \E outcome \in {"error", "notfound"} :
          HandleGenerateSettled(t, VideoThrown(RaisedBy(outcome)))
     \/ VideoLoop(t, [t EXCEPT !.queries = Count(@),
                               !.opDone = HandleDone(t.doneAt, Count(t.queries))])
  /\ UNCHANGED <<inputs, results, env, db, clock>>

\* const response = await fetch(downloadLink, ...); if (!response.ok) throw ...;
\* return URL.createObjectURL(blob)
VideoDownloaded(t) ==
  /\ t.op = "generate" /\ t.pc = "download"
  /\ \E outcome \in {"ok", "notok", "neterr"} :
       HandleGenerateSettled(t,
         CASE outcome = "ok" -> Returned("blob:V", Undefined, SrcUndefined)
           [] outcome = "notok" -> VideoThrown(DownloadMessage)
           [] OTHER -> VideoThrown(FetchMessage))
  /\ UNCHANGED <<inputs, results, env, db, clock>>

(***************************************************************************)
(* handleUpscale (App.tsx).                                                *)
(***************************************************************************)
Upscalable(result) == result.type \in {"image", "analysis"}

\* The body of the POST of handleUpscale
UpscaleBody(result, url) ==
  [type |-> "image", data |-> url, prompt |-> <<"Upscaled:">> \o result.prompt,
   text |-> "Image upscaled and enhanced for better clarity.",
   sources |-> SrcUndefined]

\* upscaleImage(base64, mimeType) with its fixed instruction
UpscaleRequest(result) ==
  Request("upscaleImage", Base64Of(result.url), <<"Upscale and enhance this image.">>, "1:1")

\* onClick={() => handleUpscale(result)}, up to await upscaleImage(...)
HandleUpscale(i) ==
  /\ i \in 1..Len(results)
  /\ Upscalable(results[i])
  /\ isGenerating' = TRUE
  /\ error' = Null
  /\ Start([NewTask EXCEPT !.op = "upscale", !.pc = "provider", !.result = results[i],
                           !.results = results, !.apiKey = getApiKey,
                           !.request = UpscaleRequest(results[i])])
  /\ UNCHANGED <<inputs, hasKey, results, env, db, clock>>

\* handleUpscale once upscaleImage has settled
UpscaleAnswers(t) ==
  /\ t.op = "upscale" /\ t.pc = "provider"
  /\ \E outcome \in ProviderOutcomes :
       LET r == upscaleImage(outcome)
       IN IF r.thrown # ""
          THEN error' = UpscaleMessage /\ isGenerating' = FALSE /\ Finish(t)
          ELSE IF Truthy(r.url)
          THEN /\ Step(t, [t EXCEPT !.pc = "sent", !.body = UpscaleBody(t.result, r.url)])
               /\ UNCHANGED <<error, isGenerating>>
          ELSE isGenerating' = FALSE /\ Finish(t) /\ UNCHANGED error
  /\ UNCHANGED <<inputs, hasKey, results, env, db, clock>>

\* A handleUpscale whose setIsGenerating(false) stands at the end of the try
\* block instead of in finally
HandleUpscaleSaved_noFinally(t) ==
  /\ t.op = "upscale" /\ t.pc = "answered"
  /\ IF Rejected(t.resp)
     THEN error' = UpscaleMessage /\ UNCHANGED <<results, isGenerating>>
     ELSE /\ results' = IF ResponseOk(t.resp)
                        THEN Prepend([SavedResult(t.resp.item) EXCEPT !.sources = SrcUndefined],
                                     t.results)
                        ELSE results
          /\ isGenerating' = FALSE
          /\ UNCHANGED error
  /\ Finish(t)
  /\ UNCHANGED <<inputs, hasKey, env, db, clock>>

\* handleUpscale after await fetch('/api/history', POST)
HandleUpscaleSaved(t) ==
  /\ t.op = "upscale" /\ t.pc = "answered"
  /\ IF Rejected(t.resp)
     THEN error' = UpscaleMessage /\ UNCHANGED results
     ELSE /\ results' = IF ResponseOk(t.resp)
                        THEN Prepend([SavedResult(t.resp.item) EXCEPT !.sources = SrcUndefined],
                                     t.results)
                        ELSE results
          /\ UNCHANGED error
  /\ isGenerating' = FALSE
  /\ Finish(t)
  /\ UNCHANGED <<inputs, hasKey, env, db, clock>>

(***************************************************************************)
(* The inputs of the component and its first effect.                       *)
(***************************************************************************)
\* onClick={() => setMode(tab.id)}
SetMode(m) ==
  /\ mode' = m
  /\ UNCHANGED <<prompt, uploadedImage, recordedAudio, aspectRatio, hasKey, error,
                 isGenerating, results, env, db, clock, tasks>>

\* onChange={(e) => setPrompt(e.target.value)}
SetPrompt(p) ==
  /\ prompt' = p
  /\ UNCHANGED <<mode, uploadedImage, recordedAudio, aspectRatio, hasKey, error,
                 isGenerating, results, env, db, clock, tasks>>

\* handleFileUpload, and the button that removes the image
SetUploadedImage(image) ==
  /\ uploadedImage' = image
  /\ UNCHANGED <<mode, prompt, recordedAudio, aspectRatio, hasKey, error,
                 isGenerating, results, env, db, clock, tasks>>

\* mediaRecorder.onstop, and the button that discards the recording
SetRecordedAudio(audio) ==
  /\ recordedAudio' = audio
  /\ UNCHANGED <<mode, prompt, uploadedImage, aspectRatio, hasKey, error,
                 isGenerating, results, env, db, clock, tasks>>

\* onClick={() => setAspectRatio(...)}
SetAspectRatio(ratio) ==
  /\ aspectRatio' = ratio
  /\ UNCHANGED <<mode, prompt, uploadedImage, recordedAudio, hasKey, error,
                 isGenerating, results, env, db, clock, tasks>>

\* saveApiKey(userApiKey): localStorage.setItem('lumina_api_key', key); the
\* key typed may be empty
SaveApiKey(nonEmpty) ==
  /\ savedKey' = nonEmpty
  /\ UNCHANGED <<inputs, hasKey, error, isGenerating, results, envKey, aistudio,
                 keySelected, db, clock, tasks>>

\* useEffect: const selected = await checkVeoKey(); setHasKey(selected);
\* fetchHistory()
InitEffect(t) ==
  /\ t.op = "init" /\ t.pc = "checkVeoKey"
  /\ hasKey' = checkVeoKey
  /\ Step(t, FetchHistoryTask)
  /\ UNCHANGED <<inputs, error, isGenerating, results, env, db, clock>>

\* The component as useState constructs it, its effect started
InitApp ==
  /\ mode = "image-edit"
  /\ prompt = EmptyPrompt
  /\ uploadedImage = Null
  /\ recordedAudio = Null
  /\ aspectRatio = "16:9"
  /\ hasKey = FALSE
  /\ error = Null
  /\ isGenerating = FALSE
  /\ results = << >>
  /\ tasks = SetToBag({[NewTask EXCEPT !.op = "init", !.pc = "checkVeoKey"]})

\* The server with an empty table
InitServer ==
  /\ store = << >>
  /\ seq = 0
  /\ clock = 0

(***************************************************************************)
(* Specifications.                                                         *)
(***************************************************************************)
Prompts == {EmptyPrompt, UserPrompt}
Images == {Null, ImageX}
Audios == {Null, AudioR}
Ratios == {"16:9", "9:16"}

\* A generation advancing by one segment
GenerationStep ==
  \E t \in InFlight :
    \/ ProviderAnswers(t)
    \/ HandleGenerateSaved(t)

\* A video generation advancing by one segment of the key dialog or the poller
VideoStep ==
  \E t \in InFlight :
    \/ KeyDialogClosed(t)
    \/ VideoIssued(t)
    \/ VideoWaited(t)
    \/ VideoQueried(t)
    \/ VideoDownloaded(t)

\* A video job that never gets done being issued
NeverDoneStep == \E t \in InFlight : VideoIssuedNeverDone(t)

\* The credential interface failing a key dialog
KeyFailureStep ==
  \E t \in InFlight :
    \/ KeyDialogRejected(t)
    \/ UnhandledRejection(t)

\* An upscale advancing by one segment
UpscaleStep ==
  \E t \in InFlight :
    \/ UpscaleAnswers(t)
    \/ HandleUpscaleSaved(t)

\* The first effect and a reload advancing by one segment
ReloadStep ==
  \E t \in InFlight :
    \/ InitEffect(t)
    \/ FetchHistoryDone(t)

\* A delete or a clear advancing by one segment
DeleteStep ==
  \E t \in InFlight :
    \/ DeleteHistoryItemDone(t)
    \/ ClearHistoryNext(t)

\* The server handling a request; DbOutcomes: whether its statements may throw
ServerStep(DbOutcomes) ==
  \E t \in InFlight, dbOk \in DbOutcomes :
    \/ ServerList(t, dbOk)
    \/ ServerCreate(t, dbOk)

ServerDeleteStep(DbOutcomes) ==
  \E t \in InFlight, dbOk \in DbOutcomes : ServerDelete(t, dbOk)

\* The network failing a request
NetworkStep == \E t \in InFlight : NetworkError(t)

\* Room for one more record: the ids drawn so far
CanCreate(max) == seq < max

\* Nothing has been generated, stored or reported yet
Pristine ==
  /\ seq = 0
  /\ results = << >>
  /\ error = Null
  /\ ~isGenerating
  /\ \A t \in InFlight : t.op \in {"init", "fetch"}

\* No handler is in flight
Quiet == tasks = EmptyBag

Init ==
  /\ InitApp
  /\ InitServer
  /\ envKey \in BOOLEAN
  /\ aistudio \in BOOLEAN
  /\ keySelected \in (IF aistudio THEN BOOLEAN ELSE {FALSE})
  /\ savedKey = FALSE

\* One operation at a time, in every mode, with a server and a network that
\* may fail: the user chooses the mode, the image, the recording and the ratio
\* before the first operation, types the prompt between operations, and starts
\* an operation (a generation, a reload, a delete, a clear) when none is in
\* flight.
Next ==
  \/ Pristine /\ \E m \in Modes : SetMode(m)
  \/ Pristine /\ \E image \in Images : SetUploadedImage(image)
  \/ Pristine /\ \E audio \in Audios : SetRecordedAudio(audio)
  \/ Pristine /\ \E ratio \in Ratios : SetAspectRatio(ratio)
  \/ Quiet /\ \E p \in Prompts : SetPrompt(p)
  \/ Quiet /\ CanCreate(MaxSaved) /\ HandleGenerate
  \/ Quiet /\ FetchHistory
  \/ Quiet /\ \E i \in 1..Len(results) : DeleteHistoryItem(results[i].id)
  \/ Quiet /\ ClearHistory
  \/ GenerationStep
  \/ VideoStep
  \/ ReloadStep
  \/ DeleteStep
  \/ ServerStep(BOOLEAN)
  \/ ServerDeleteStep(BOOLEAN)
  \/ NetworkStep

Spec == Init /\ [][Next]_vars

\* The history under concurrency, outside the managed environment and with a
\* server and a network that do not fail: the user stays in the mode the
\* component starts in (image-edit), uploads an image and starts operations
\* while others are in flight; the server's clock runs.
InitHistory ==
  /\ InitApp
  /\ InitServer
  /\ envKey = TRUE
  /\ aistudio = FALSE
  /\ keySelected = FALSE
  /\ savedKey = FALSE

NextHistory ==
  \/ Pristine /\ SetUploadedImage(ImageX)
  \/ CanCreate(MaxRows) /\ HandleGenerate
  \/ CanCreate(MaxRows) /\ \E i \in 1..Len(results) : HandleUpscale(i)
  \/ FetchHistory
  \/ \E i \in 1..Len(results) : DeleteHistoryItem(results[i].id)
  \/ ClearHistory
  \/ Tick
  \/ GenerationStep
  \/ UpscaleStep
  \/ ReloadStep
  \/ DeleteStep
  \/ ServerStep({TRUE})
  \/ ServerDeleteStep({TRUE})

SpecHistory == InitHistory /\ [][NextHistory]_vars

\* The order of the history: as SpecHistory, one operation at a time, the
\* operations being generations and reloads.
NextOrder ==
  \/ Pristine /\ SetUploadedImage(ImageX)
  \/ Quiet /\ CanCreate(MaxOrdered) /\ HandleGenerate
  \/ Quiet /\ FetchHistory
  \/ Tick
  \/ GenerationStep
  \/ ReloadStep
  \/ ServerStep({TRUE})

SpecOrder == InitHistory /\ [][NextOrder]_vars

\* Clearing the history: as SpecOrder without the clock, the operations being
\* generations, reloads, deletes and clears, one at a time.
NextClear ==
  \/ Pristine /\ SetUploadedImage(ImageX)
  \/ Quiet /\ CanCreate(MaxOrdered) /\ HandleGenerate
  \/ Quiet /\ FetchHistory
  \/ Quiet /\ \E i \in 1..Len(results) : DeleteHistoryItem(results[i].id)
  \/ Quiet /\ ClearHistory
  \/ GenerationStep
  \/ ReloadStep
  \/ DeleteStep
  \/ ServerStep({TRUE})
  \/ ServerDeleteStep({TRUE})

SpecClear == InitHistory /\ [][NextClear]_vars

\* An edit with a prompt: as SpecOrder, the user typing or erasing the prompt
\* between operations.
NextEdit ==
  \/ Pristine /\ SetUploadedImage(ImageX)
  \/ Quiet /\ \E p \in Prompts : SetPrompt(p)
  \/ Quiet /\ CanCreate(MaxOrdered) /\ HandleGenerate
  \/ Quiet /\ FetchHistory
  \/ Tick
  \/ GenerationStep
  \/ ReloadStep
  \/ ServerStep({TRUE})

SpecEdit == InitHistory /\ [][NextEdit]_vars

\* The key of the settings dialog: one generation at a time in every mode,
\* with a server and a network that do not fail; the user saves or erases the
\* key between operations, and may have saved one in an earlier session.
InitKey ==
  /\ InitApp
  /\ InitServer
  /\ envKey \in BOOLEAN
  /\ aistudio \in BOOLEAN
  /\ keySelected \in (IF aistudio THEN BOOLEAN ELSE {FALSE})
  /\ savedKey \in BOOLEAN

NextKey ==
  \/ Pristine /\ \E m \in Modes : SetMode(m)
  \/ Pristine /\ \E image \in Images : SetUploadedImage(image)
  \/ Pristine /\ \E audio \in Audios : SetRecordedAudio(audio)
  \/ Quiet /\ \E p \in Prompts : SetPrompt(p)
  \/ Quiet /\ \E nonEmpty \in BOOLEAN : SaveApiKey(nonEmpty)
  \/ Quiet /\ CanCreate(MaxSaved) /\ HandleGenerate
  \/ GenerationStep
  \/ VideoStep
  \/ ReloadStep
  \/ ServerStep({TRUE})

SpecKey == InitKey /\ [][NextKey]_vars

\* Switching the mode: as SpecHistory with one generation at a time in every
\* mode; the user switches the mode at any time, also while a generation is
\* in flight.
NextMode ==
  \/ \E m \in Modes : SetMode(m)
  \/ Pristine /\ SetUploadedImage(ImageX)
  \/ Pristine /\ SetRecordedAudio(AudioR)
  \/ Quiet /\ \E p \in Prompts : SetPrompt(p)
  \/ Quiet /\ CanCreate(MaxSaved) /\ HandleGenerate
  \/ GenerationStep
  \/ VideoStep
  \/ ReloadStep
  \/ ServerStep({TRUE})

SpecMode == InitHistory /\ [][NextMode]_vars

\* The poller without an attempt bound: as SpecHistory without reloads,
\* deletes and the clock, in the modes image-edit and video-gen; the provider
\* may leave a video job undone forever.  Every awaited call settles and the
\* continuation of a settled call runs: each step of a handler is weakly fair.
NextPoll ==
  \/ Pristine /\ SetUploadedImage(ImageX)
  \/ Quiet /\ \E m \in {"image-edit", "video-gen"} : SetMode(m)
  \/ Quiet /\ SetPrompt(UserPrompt)
  \/ CanCreate(MaxRows) /\ HandleGenerate
  \/ CanCreate(MaxRows) /\ \E i \in 1..Len(results) : HandleUpscale(i)
  \/ GenerationStep
  \/ VideoStep
  \/ NeverDoneStep
  \/ UpscaleStep
  \/ ReloadStep
  \/ ServerStep({TRUE})

\* The poller of a job that never gets done advancing by one segment
NeverDoneLoop ==
  \E t \in InFlight : t.doneAt = Never /\ (VideoWaited(t) \/ VideoQueried(t))

\* A video generation whose job gets done advancing by one segment
DoneJobStep ==
  \E t \in InFlight :
    /\ t.doneAt # Never
    /\ \/ KeyDialogClosed(t)
       \/ VideoIssued(t)
       \/ VideoWaited(t)
       \/ VideoQueried(t)
       \/ VideoDownloaded(t)

Settling ==
  /\ WF_vars(GenerationStep)
  /\ WF_vars(DoneJobStep)
  /\ WF_vars(NeverDoneLoop)
  /\ WF_vars(UpscaleStep)
  /\ WF_vars(ReloadStep)
  /\ WF_vars(ServerStep({TRUE}))

SpecPoll == InitHistory /\ [][NextPoll]_vars /\ Settling

\* As Spec, with a credential interface that may fail: openSelectKey or
\* hasSelectedApiKey may reject.
NextGate ==
  \/ Next
  \/ KeyFailureStep

SpecGate == Init /\ [][NextGate]_vars

\* One generation or upscale at a time, in every mode, with a provider, a
\* server and a network that may fail but always answer: every awaited call
\* settles, and a handler whose awaited call has settled runs on.
NextSettle ==
  \/ Pristine /\ \E m \in Modes : SetMode(m)
  \/ Pristine /\ SetUploadedImage(ImageX)
  \/ Pristine /\ SetRecordedAudio(AudioR)
  \/ Quiet /\ SetPrompt(UserPrompt)
  \/ Quiet /\ CanCreate(MaxRows) /\ HandleGenerate
  \/ Quiet /\ CanCreate(MaxRows) /\ \E i \in 1..Len(results) : HandleUpscale(i)
  \/ GenerationStep
  \/ VideoStep
  \/ UpscaleStep
  \/ ReloadStep
  \/ ServerStep(BOOLEAN)
  \/ NetworkStep

AwaitedCallsSettle ==
  /\ WF_vars(GenerationStep)
  /\ WF_vars(VideoStep)
  /\ WF_vars(UpscaleStep)
  /\ WF_vars(ReloadStep)
  /\ WF_vars(ServerStep(BOOLEAN) \/ NetworkStep)

SpecSettle == Init /\ [][NextSettle]_vars /\ AwaitedCallsSettle

\* The bodies a client of the API may send: each of type and data missing,
\* empty or given, the prompt missing or empty (both falsy) or given, text and
\* sources missing or given.
Bodies ==
  [type : {Undefined, "", "image"}, data : {Undefined, "", "data:X"},
   prompt : {EmptyPrompt, UserPrompt}, text : {Undefined, "t"},
   sources : {SrcUndefined, SrcArray(<< >>)}]

\* The store on its own: after the component's first reload, clients of the
\* API send create requests with any body and delete requests for any id, one
\* at a time; the statements of the server may throw and its clock runs.
NextStore ==
  \/ Quiet /\ CanCreate(MaxOrdered) /\ \E body \in Bodies : ApiCreate(body)
  \/ Quiet /\ \E id \in 1..MaxOrdered : ApiDelete(id)
  \/ \E t \in InFlight : ApiAnswered(t)
  \/ Tick
  \/ ReloadStep
  \/ ServerStep(BOOLEAN)
  \/ ServerDeleteStep(BOOLEAN)

SpecStore == InitHistory /\ [][NextStore]_vars

\* Identifiers under concurrency: as SpecHistory without the clock, upscales
\* and clears; generations and reloads start while others are in flight, a
\* delete starts when nothing is, and the store hands out up to MaxRows
\* identifiers.
NextIds ==
  \/ Pristine /\ SetUploadedImage(ImageX)
  \/ CanCreate(MaxRows) /\ HandleGenerate
  \/ FetchHistory
  \/ Quiet /\ \E i \in 1..Len(results) : DeleteHistoryItem(results[i].id)
  \/ GenerationStep
  \/ ReloadStep
  \/ \E t \in InFlight : DeleteHistoryItemDone(t)
  \/ ServerStep({TRUE})
  \/ ServerDeleteStep({TRUE})

SpecIds == InitHistory /\ [][NextIds]_vars

(***************************************************************************)
(* Properties.                                                             *)
(***************************************************************************)
\* The input a mode requires is missing: the prompt, the uploaded image or
\* the recording
RequiredInputMissing ==
  \/ mode \in {"video-gen", "speech", "generate-image", "research", "summarize"}
       /\ prompt = EmptyPrompt
  \/ mode \in {"image-edit", "analyze"} /\ uploadedImage = Null
  \/ mode = "transcribe" /\ recordedAudio = Null

ValidationMessages ==
  {PromptMessage(m) : m \in Modes} \cup {ImageMessage, AudioMessage}

\* C1: in each of the 8 modes, a handleGenerate whose required input is
\* missing sets a validation message and does nothing else: no handler is left
\* awaiting a provider, store or key-dialog call, the store and the key
\* selection are untouched, and isGenerating is not set.
C1_InvalidInputIssuesNothing ==
  [][(HandleGenerate /\ RequiredInputMissing) =>
       /\ error' \in ValidationMessages
       /\ ~isGenerating'
       /\ UNCHANGED <<tasks, store, seq, keySelected, hasKey, isGenerating, results,
                      inputs>>]_vars

\* C1 witness: a research generation without a prompt has been refused
C1_Witness ==
  /\ mode = "research"
  /\ prompt = EmptyPrompt
  /\ error = PromptMessage("research")
  /\ Quiet
  /\ store = << >>
  /\ ~isGenerating

\* The create requests in flight
CreateRequests ==
  {t \in InFlight : t.op \in {"generate", "upscale"} /\ t.pc \in {"sent", "answered"}}

\* C5: no create request, no row of the store and no entry of the in-memory
\* list carries a blob: URL as its data; the URL generateVideo returned goes to
\* the store as the data URI of its bytes.
C5_NoBlobPersisted ==
  /\ \A t \in CreateRequests :
       /\ ~StartsWithBlob(t.body.data)
       /\ t.mode = "video-gen" => t.body.data = "data:V"
  /\ \A i \in 1..Len(store) : ~StartsWithBlob(store[i].data)
  /\ \A i \in 1..Len(results) : ~StartsWithBlob(results[i].url)

\* C5 witness: a generated video is stored and listed as a data URI
C5_Witness ==
  /\ \E i \in 1..Len(store) : store[i].type = "video" /\ store[i].data = "data:V"
  /\ \E i \in 1..Len(results) : results[i].type = "video" /\ results[i].url = "data:V"

\* C7: the poller of a video whose job is done at the provider's N-th status
\* query (doneAt) and carries a URI queries exactly N times, each query after
\* one wait, and then requests exactly one download with the key header.
C7_PollsExactlyN ==
  \A t \in InFlight :
    t.op = "generate" /\ t.mode = "video-gen" =>
      /\ t.queries <= t.doneAt
      /\ t.waits = IF t.pc = "query" THEN t.queries + 1 ELSE t.queries
      /\ t.downloads = IF t.pc \in {"download", "sent", "answered"} THEN 1 ELSE 0
      /\ t.pc \in {"download", "sent", "answered"} =>
           /\ t.hasUri
           /\ t.queries = t.doneAt
           /\ t.waits = t.doneAt
           /\ t.auth

\* C7 witness: a video done at the second query has been downloaded after two
\* queries
C7_Witness ==
  \E t \in InFlight :
    /\ t.op = "generate" /\ t.mode = "video-gen" /\ t.pc = "sent"
    /\ t.doneAt = 2 /\ t.queries = 2 /\ t.waits = 2 /\ t.downloads = 1

\* The messages the catch block of handleGenerate shows
FailureMessages == {GenericMessage, ExpiredKeyMessage}

\* A step in which the handleGenerate t in flight returns with a failure
\* message shown (a key dialog left without a key returns with hasKey false
\* and shows nothing)
EndsWithError(t) ==
  /\ t.op = "generate"
  /\ Finish(t)
  /\ error' \in FailureMessages
  /\ t.pc = "dialog" => hasKey'

\* A click on Generate that returns at once with a failure message shown
ClickEndsWithError ==
  /\ HandleGenerate
  /\ UNCHANGED tasks
  /\ error' \in FailureMessages

\* C6 as claimed: a handleGenerate that ends with an error has issued no create
\* request and leaves the store and the in-memory list as they are.
C6_ErrorMeansNoCreate ==
  [][/\ \A t \in InFlight :
          EndsWithError(t) =>
            /\ t.pc \notin {"sent", "answered"}
            /\ t.body = NoBody
            /\ UNCHANGED <<store, seq, results>>
     /\ ClickEndsWithError => UNCHANGED <<store, seq, results>>]_vars

\* C6 amended: a handleGenerate that ends with an error writes nothing to the
\* store or the in-memory list as it ends, and the list is the one it started
\* with; either it has issued no create request (the error was raised before
\* the POST), or the error is the rejection of the create request itself by
\* the network.
C6_ErrorBeforeCreateOrCreateRejected ==
  [][/\ \A t \in InFlight :
          EndsWithError(t) =>
            /\ UNCHANGED <<store, seq, results>>
            /\ results = t.results
            /\ \/ t.pc \notin {"sent", "answered"} /\ t.body = NoBody
               \/ t.pc = "answered" /\ t.resp.status = "neterr"
     /\ ClickEndsWithError => UNCHANGED <<store, seq, results>> /\ ~envKey]_vars

\* C6 witness: a generation in a mode other than video-gen has ended with the
\* generic message, nothing stored and nothing listed
C6_Witness ==
  /\ error = GenericMessage
  /\ envKey
  /\ Quiet
  /\ ~isGenerating
  /\ seq = 0 /\ store = << >> /\ results = << >>


\* The ids of a list of entries or rows, in order
Ids(list) == [i \in 1..Len(list) |-> list[i].id]

\* C9 as claimed: the store's create operation accepts a record whose data is
\* the empty string when type and prompt are not empty: it inserts the record
\* and answers with it under a new id.
C9_EmptyDataAccepted ==
  [][\A t \in InFlight :
       (/\ ServerCreate(t, TRUE)
        /\ t.body.data = ""
        /\ Truthy(t.body.type)
        /\ TruthyPrompt(t.body.prompt)) =>
         /\ seq' = seq + 1
         /\ Len(store') = Len(store) + 1
         /\ store'[Len(store')].id = seq' /\ store'[Len(store')].data = ""
         /\ \E u \in BagToSet(tasks') : u.resp.status = "ok" /\ u.resp.item.id = seq']_vars

\* C8 as claimed: a research generation whose provider call returned text and
\* citations, and whose create request neither the network nor the database
\* failed, ends with a record of type research in the store that carries the
\* citations with a URI, and with that record at the head of the in-memory list.
C8_ResearchPersisted ==
  [][\A t \in InFlight :
       (/\ HandleGenerateSaved(t)
        /\ t.mode = "research"
        /\ t.resp.status \notin {"500", "neterr"}) =>
         /\ Len(results') > 0
         /\ results'[1].type = "research"
         /\ results'[1].sources = t.body.sources
         /\ \E i \in 1..Len(store) :
              /\ store[i].id = results'[1].id
              /\ store[i].type = "research"
              /\ EntryOfRow(store[i]).sources =
                   IF TruthySrc(t.body.sources) THEN t.body.sources ELSE SrcUndefined]_vars

\* C2 as claimed: once no operation is in flight, the in-memory list holds
\* exactly the ids of the rows of the store, in an order the list operation
\* returns them.
C2_ListMirrorsStore ==
  Quiet => Ids(results) \in {Ids(rows) : rows \in ListOutcomes(store)}

\* C3 as claimed: when a create succeeds, the in-memory list becomes the new
\* entry followed by the entries the list held immediately before the update
\* (stated for the lists that do not hold the new entry yet: a reload that
\* completed in the meantime may have listed it already).
C3_PrependsToCurrentList ==
  [][\A t \in InFlight :
       (/\ HandleGenerateSaved(t) \/ HandleUpscaleSaved(t)
        /\ ~Rejected(t.resp)
        /\ ResponseOk(t.resp)
        /\ \A i \in 1..Len(results) : results[i].id # t.resp.item.id) =>
         /\ Len(results') = Len(results) + 1
         /\ results'[1].id = t.resp.item.id
         /\ Ids(results') = <<t.resp.item.id>> \o Ids(results)]_vars

\* The provider-calling operations in flight: every handleGenerate past its
\* validation and every handleUpscale
ProviderOperations == {t \in InFlight : t.op \in {"generate", "upscale"}}

\* C4 as claimed: at most one provider-calling operation is in flight at a
\* time, and isGenerating is true as long as one is.
C4_OneGenerationAtATime ==
  /\ \A t \in ProviderOperations : CopiesIn(t, tasks) = 1
  /\ Cardinality(ProviderOperations) <= 1
  /\ ProviderOperations # {} => isGenerating

\* C10 as claimed: a list of the store returns the records in reverse order of
\* creation, and so does the in-memory list after fetchHistory.
C10_ListNewestFirst ==
  \A t \in InFlight :
    (t.op = "fetch" /\ t.pc = "answered" /\ ResponseOk(t.resp)) =>
      \A i, j \in 1..Len(t.resp.rows) :
        i < j => t.resp.rows[i].id > t.resp.rows[j].id

\* The provider fails the issue or a status query of the video of task t
\* reporting the credential as not found
VideoKeyNotFound(t) ==
  /\ t.op = "generate" /\ t.mode = "video-gen"
  /\ t.pc \in {"issue", "query"}
  /\ HandleGenerateSettled(t, VideoThrown(RaisedBy("notfound")))

\* C11: in video-gen, when the issue or a status query fails with the
\* credential reported as not found, handleGenerate ends with hasKey false and
\* the expiry message shown; it has sent no create request and leaves the store
\* and the in-memory list as they were when it started.
C11_ExpiryClearsKey ==
  [][\A t \in InFlight :
       VideoKeyNotFound(t) =>
         /\ ~hasKey'
         /\ error' = ExpiredKeyMessage
         /\ error' # GenericMessage
         /\ ~isGenerating'
         /\ t.body = NoBody
         /\ results' = t.results
         /\ UNCHANGED <<store, seq>>
         /\ BagToSet(tasks') = InFlight \ {t}]_vars

\* C11 witness: a video generation started with a key has ended with the
\* expiry message and the key flag cleared, nothing stored or listed
C11_Witness ==
  /\ mode = "video-gen"
  /\ error = ExpiredKeyMessage
  /\ ~hasKey
  /\ checkVeoKey
  /\ Quiet
  /\ store = << >> /\ results = << >>

\* C12 as claimed: every Gateway operation raises API_KEY_EXPIRED when the
\* provider fails reporting the credential as not found, so that handleGenerate
\* shows the expiry message and clears hasKey in every mode.
C12_EveryOperationRaisesExpiry ==
  [][\A t \in InFlight : \A chunks \in ChunkLists :
       (/\ t.op = "generate" /\ t.pc = "provider"
        /\ HandleGenerateSettled(t, Gateway(t.mode, "notfound", chunks))) =>
         /\ Gateway(t.mode, "notfound", chunks).thrown = ExpiredMessage
         /\ error' = ExpiredKeyMessage
         /\ ~hasKey']_vars

\* C13: once a generation has ended with the expiry message, the next
\* handleGenerate in video-gen with a prompt opens the key dialog instead of
\* calling the provider, and goes on to the provider only with the key
\* re-checked and found selected.
C13_ExpiryReopensDialog ==
  [][/\ (/\ HandleGenerate
         /\ error = ExpiredKeyMessage
         /\ mode = "video-gen"
         /\ TruthyPrompt(prompt)) =>
           /\ tasks' = tasks (+) SetToBag({[GenerateTask EXCEPT !.pc = "dialog"]})
           /\ ~isGenerating'
           /\ UNCHANGED <<hasKey, store, seq, results>>
     /\ \A t \in InFlight :
          (/\ error = ExpiredKeyMessage
           /\ t.op = "generate" /\ t.pc = "dialog"
           /\ \E u \in BagToSet(tasks') : u.op = "generate" /\ u.pc \notin {"dialog"}) =>
             /\ checkVeoKey'
             /\ hasKey']_vars

\* C13 witness: the expiry message is showing and the key dialog of the next
\* video generation is open
C13_Witness ==
  /\ error = ExpiredKeyMessage
  /\ ~hasKey
  /\ \E t \in InFlight :
       t.op = "generate" /\ t.pc = "dialog" /\ t.mode = "video-gen"
         /\ TruthyPrompt(t.prompt)

\* The handleGenerate t leaves the key dialog it awaits
LeavesKeyDialog(t) ==
  /\ t.op = "generate" /\ t.pc = "dialog"
  /\ CopiesIn(t, tasks') < CopiesIn(t, tasks)

\* C14: in video-gen with a prompt and hasKey false, handleGenerate opens the
\* key dialog and calls nothing else; when the dialog closes it stores the
\* answer of the renewed check in hasKey; with no key selected it returns, no
\* provider or store call made, isGenerating never set and the list unchanged;
\* only with a key selected does it go on to the provider call.
C14_KeyGate ==
  [][/\ (/\ HandleGenerate
         /\ mode = "video-gen"
         /\ TruthyPrompt(prompt)
         /\ ~hasKey) =>
           /\ tasks' = tasks (+) SetToBag({[GenerateTask EXCEPT !.pc = "dialog"]})
           /\ UNCHANGED <<hasKey, error, isGenerating, keySelected, store, seq, results>>
     /\ \A t \in InFlight :
          LeavesKeyDialog(t) =>
            /\ hasKey' = checkVeoKey'
            /\ IF ~hasKey'
               THEN /\ Finish(t)
                    /\ ~isGenerating /\ ~isGenerating'
                    /\ UNCHANGED <<error, store, seq, results>>
               ELSE \/ /\ envKey
                       /\ Step(t, [t EXCEPT !.pc = "issue", !.apiKey = getApiKey,
                                            !.request = Request("generateVideo", t.image,
                                                                t.prompt, t.aspect)])
                       /\ isGenerating'
                       /\ UNCHANGED <<store, seq, results>>
                    \/ /\ ~envKey
                       /\ Finish(t)
                       /\ error' = GenericMessage
                       /\ UNCHANGED <<store, seq, results>>]_vars

\* C14 witness: in the managed environment with no key selected, a video
\* generation with a prompt awaits the key dialog, isGenerating not set
C14_Witness ==
  /\ aistudio /\ ~keySelected /\ ~hasKey
  /\ ~isGenerating
  /\ error = Null
  /\ \E t \in InFlight :
       t.op = "generate" /\ t.pc = "dialog" /\ t.mode = "video-gen"
         /\ TruthyPrompt(t.prompt)

\* The Gateway operation of task t returns neither an asset nor a text: an
\* image or speech answer without an inline part, a finished video without a
\* URI
ReturnsNothing(t) ==
  /\ t.op = "generate"
  /\ \/ /\ t.pc = "provider"
        /\ t.mode \in {"image-edit", "generate-image", "speech"}
        /\ HandleGenerateSettled(t, Gateway(t.mode, "nothing", << >>))
     \/ /\ t.pc \in {"issue", "query"}
        /\ t.mode = "video-gen"
        /\ HandleGenerateSettled(t, Returned(Null, Undefined, SrcUndefined))

\* C15: every record handleGenerate sends to the store has a non-empty data
\* or a non-empty text; when the Gateway operation returns neither, the
\* generation fails: the error is set and nothing is sent, stored or listed.
C15_AssetOrText ==
  [][/\ \A u \in BagToSet(tasks') :
          (u.op = "generate" /\ u.pc = "sent") =>
            Truthy(u.body.data) \/ Truthy(u.body.text)
     /\ \A t \in InFlight :
          ReturnsNothing(t) =>
            /\ error' = GenericMessage
            /\ ~isGenerating'
            /\ Finish(t)
            /\ t.body = NoBody
            /\ UNCHANGED <<store, seq, results>>]_vars

\* C15 witness: a create request of a text-only result is in flight, its data
\* empty and its text not
C15_Witness ==
  \E t \in InFlight :
    /\ t.op = "generate" /\ t.pc = "sent"
    /\ t.body.data = ""
    /\ Truthy(t.body.text)

\* C16 as claimed: when a create request of handleGenerate or handleUpscale, or
\* a delete request of deleteHistoryItem, fails by a status that is not OK or
\* by a network error, an error is shown.
C16_StoreFailureShown ==
  [][\A t \in InFlight :
       (/\ t.pc = "answered"
        /\ t.resp.status \in {"400", "500", "neterr"}
        /\ \/ HandleGenerateSaved(t)
           \/ HandleUpscaleSaved(t)
           \/ DeleteHistoryItemDone(t)) =>
         error' # Null]_vars

\* C17 as claimed: the store's delete answers with success and removes exactly
\* the row of the id, if there is one, keeping the others in order; on success
\* deleteHistoryItem removes exactly the entry of that id from the in-memory
\* list, if there is one, keeping the others in order.
C17_DeleteRemovesExactlyOne ==
  [][\A t \in InFlight :
       /\ ServerDelete(t, TRUE) =>
            /\ store' = SelectSeq(store, LAMBDA row : row.id # t.id)
            /\ (\A i \in 1..Len(store) : store[i].id # t.id) => store' = store
            /\ \E u \in BagToSet(tasks') : u.id = t.id /\ u.resp.status = "ok"
       /\ (DeleteHistoryItemDone(t) /\ t.resp.status = "ok") =>
            /\ Ids(results') = SelectSeq(Ids(results), LAMBDA id : id # t.id)
            /\ (\A i \in 1..Len(results) : results[i].id # t.id) =>
                 Ids(results') = Ids(results)]_vars

\* The ids of the rows of the store
StoredIds == {store[i].id : i \in 1..Len(store)}

\* The clearHistory t has sent its delete requests in the order of the list it
\* captured: it awaits the one of entry idx, and those of the entries before
\* have been served
ClearedSoFar(t) ==
  /\ t.idx \in 1..Len(t.results)
  /\ t.id = t.results[t.idx].id
  /\ TruthyId(t.id)
  /\ \A j \in 1..(t.idx - 1) :
       TruthyId(t.results[j].id) => t.results[j].id \notin StoredIds
  /\ t.pc = "answered" => t.id \notin StoredIds

\* C18: a confirmed clearHistory whose deletes all succeed sends one delete
\* request per entry of the in-memory list that has an id, one after another
\* in the order of the list, and ends with the list empty and none of those
\* entries left in the store.  (An unconfirmed clearHistory returns before any
\* statement that writes: it is the step that changes nothing.)
C18_ClearDeletesEach ==
  [][/\ (/\ ClearHistory
         /\ results # << >>
         /\ tasks' # tasks \/ results' # results) =>
           /\ LET first == CHOOSE k \in 1..Len(results) :
                             /\ TruthyId(results[k].id)
                             /\ \A j \in 1..(k - 1) : ~TruthyId(results[j].id)
              IN tasks' = tasks (+) SetToBag({[NewTask EXCEPT
                            !.op = "clear", !.pc = "sent", !.idx = first,
                            !.id = results[first].id, !.results = results]})
           /\ UNCHANGED <<results, store, seq>>
     /\ \A t \in InFlight :
          t.op = "clear" =>
            /\ ClearedSoFar(t)
            /\ (t.pc = "answered" /\ ClearHistoryNext(t)) =>
                 IF \E k \in (t.idx + 1)..Len(t.results) : TruthyId(t.results[k].id)
                 THEN /\ LET next == CHOOSE k \in (t.idx + 1)..Len(t.results) :
                                      /\ TruthyId(t.results[k].id)
                                      /\ \A j \in (t.idx + 1)..(k - 1) :
                                           ~TruthyId(t.results[j].id)
                         IN Step(t, [t EXCEPT !.pc = "sent", !.idx = next,
                                              !.id = t.results[next].id,
                                              !.resp = NoResp])
                      /\ UNCHANGED <<results, store>>
                 ELSE /\ Finish(t)
                      /\ results' = << >>
                      /\ \A k \in 1..Len(t.results) : t.results[k].id \notin StoredIds
                      /\ UNCHANGED store]_vars

\* C18 witness: a clearHistory over a list of three entries awaits its second
\* delete request, the first entry gone from the store
C18_Witness ==
  \E t \in InFlight :
    /\ t.op = "clear" /\ t.pc = "sent"
    /\ Len(t.results) = 3 /\ t.idx = 2
    /\ t.results[1].id \notin StoredIds
    /\ t.results[2].id \in StoredIds

\* C19: when the list request fails, by a status that is not OK or by a
\* network error, fetchHistory returns normally and leaves the in-memory list
\* (and the rest of the component state) exactly as it was.
C19_FailedReloadKeepsList ==
  [][\A t \in InFlight :
       (/\ FetchHistoryDone(t)
        /\ t.resp.status \in {"400", "500", "neterr"}) =>
         /\ results' = results
         /\ Finish(t)
         /\ UNCHANGED <<error, isGenerating, hasKey, inputs, store, seq>>]_vars

\* C19 witness: a reload has been answered with a failure while the list holds
\* an entry
C19_Witness ==
  /\ results # << >>
  /\ \E t \in InFlight :
       t.op = "fetch" /\ t.pc = "answered" /\ t.resp.status \in {"500", "neterr"}

EditSaved(t) ==
  /\ HandleGenerateSaved(t)
  /\ t.mode = "image-edit"
  /\ t.image = ImageX
  /\ t.prompt = UserPrompt
  /\ t.body.data = DataUri("Y")
  /\ t.resp.status = "ok"

\* The entry of the end-to-end edit: type image, asset Y, prompt P
IsEditEntry(e) ==
  /\ e.type = "image"
  /\ e.prompt = UserPrompt
  /\ TruthyId(e.id)

\* C21 as claimed: an image-edit generation with image X and prompt P, the
\* provider returning asset Y and the store accepting the create, ends with an
\* entry of type image, asset Y and prompt P under the id the store assigned,
\* at the head of the in-memory list and at the head of the store's list.
C21_EditEndToEnd ==
  [][\A t \in InFlight :
       EditSaved(t) =>
         /\ Len(results') > 0
         /\ IsEditEntry(results'[1])
         /\ results'[1].url = DataUri("Y")
         /\ results'[1].id = t.resp.item.id
         /\ \E i \in 1..Len(store) :
              /\ store[i].id = results'[1].id
              /\ store[i].type = "image"
              /\ store[i].data = DataUri("Y")
              /\ store[i].prompt = UserPrompt
         /\ \A rows \in ListOutcomes(store) : rows[1].id = results'[1].id]_vars

\* The download of the finished video of task t is answered with a status
\* that is not OK
DownloadNotOk(t) ==
  /\ t.op = "generate" /\ t.mode = "video-gen"
  /\ t.pc = "download"
  /\ HandleGenerateSettled(t, VideoThrown(DownloadMessage))

\* C22: when the video job is done with a URI and the download is answered
\* with a status that is not OK, generateVideo raises an error (it returns
\* neither null nor a blob URL) that is not the expiry error; handleGenerate
\* ends with the generic message, hasKey as it was, and nothing sent, stored
\* or listed.
C22_DownloadFailureIsGeneric ==
  [][\A t \in InFlight :
       DownloadNotOk(t) =>
         /\ t.opDone /\ t.hasUri
         /\ VideoThrown(DownloadMessage).thrown = DownloadMessage
         /\ VideoThrown(DownloadMessage).thrown # ExpiredMessage
         /\ error' = GenericMessage
         /\ hasKey' = hasKey
         /\ ~isGenerating'
         /\ Finish(t)
         /\ t.body = NoBody
         /\ results' = t.results
         /\ UNCHANGED <<store, seq, results, keySelected>>]_vars

\* C22 witness: the job of a video generation is done with a URI after a
\* status query and its download has been requested, the key flag set
C22_Witness ==
  /\ hasKey
  /\ isGenerating
  /\ \E t \in InFlight :
       /\ t.op = "generate" /\ t.mode = "video-gen" /\ t.pc = "download"
       /\ t.opDone /\ t.hasUri /\ t.queries = 1 /\ t.downloads = 1

\* The references materialization may be handed: no URL, the empty URL, the
\* blob URL of this session, and the data URIs
Payloads == {"X", "R", "Y", "S", "U", "V"}
DurableUrls == {DataUri(x) : x \in Payloads}
ResultUrls == {Null, ""} \cup BlobUrls \cup DurableUrls

\* C23: materialization is idempotent: a reference already in data-URI form
\* comes back unchanged and is not fetched, in every mode; materializing the
\* output of a materialization gives that output again, in every mode and for
\* every reference; so the data of every create request of handleGenerate is a
\* fixed point.
C23_MaterializeIdempotent ==
  /\ \A m \in Modes : \A u \in DurableUrls :
       /\ ~FetchesBlob(m, u)
       /\ Materialize(m, u) = u
  /\ \A m \in Modes : \A u \in ResultUrls :
       /\ Materialize(m, Materialize(m, u)) = Materialize(m, u)
       /\ ~FetchesBlob(m, Materialize(m, u))
  /\ \A t \in CreateRequests :
       t.op = "generate" =>
         /\ ~FetchesBlob(t.mode, t.body.data)
         /\ Materialize(t.mode, t.body.data) = t.body.data

\* C23 witness: the create request of a video is in flight, its data the data
\* URI that the blob URL was materialized to
C23_Witness ==
  \E t \in CreateRequests :
    /\ t.op = "generate" /\ t.mode = "video-gen" /\ t.pc = "sent"
    /\ t.body.data = Materialize("video-gen", "blob:V")
    /\ t.body.data = DataUri("V")
    /\ FetchesBlob("video-gen", "blob:V")

\* The answers of the provider the extraction of sources is checked on: every
\* list of up to three chunks, a chunk with or without a title and a URI
ChunkValues == {Chunk(title, uri) : title \in {"A", Undefined}, uri \in {"u1", "u2", Undefined}}
AllChunkLists ==
  UNION {[1..n -> ChunkValues] : n \in 0..3}

\* The indices of the chunks that have a URI
WithUri(chunks) == {i \in 1..Len(chunks) : Truthy(chunks[i].uri)}

\* out lists exactly the chunks with a URI, in their order, the k-th entry
\* being the pair of the k-th such chunk with its title or "Source"
ListsChunksWithUri(out, chunks) ==
  /\ Len(out) = Cardinality(WithUri(chunks))
  /\ \A i \in WithUri(chunks) :
       LET k == Cardinality({j \in WithUri(chunks) : j <= i})
       IN /\ out[k].uri = chunks[i].uri
          /\ out[k].title = IF chunks[i].title = Undefined THEN "Source"
                            ELSE chunks[i].title

\* The extraction on every answer of the provider
SourcesExact ==
  /\ \A chunks \in AllChunkLists :
       /\ ListsChunksWithUri(SourcesOf(chunks), chunks)
       /\ ListsChunksWithUri(SourcesOfMetadata(TRUE, chunks), chunks)
       /\ SourcesOfMetadata(FALSE, chunks) = << >>
  /\ \A outcome \in {"content", "nothing"} : \A chunks \in ChunkLists :
       /\ researchWithSearch(outcome, chunks).thrown = ""
       /\ researchWithSearch(outcome, chunks).sources.kind = "array"
       /\ ListsChunksWithUri(researchWithSearch(outcome, chunks).sources.items, chunks)

\* C24: researchWithSearch returns as sources exactly the grounding chunks
\* that have a URI, in their order, each as the pair of its title (or "Source")
\* and its URI; chunks without a URI are dropped and an answer without
\* grounding metadata gives the empty list; so the sources of every research
\* record sent to the store are such pairs.
C24_SourcesAreChunksWithUri ==
  /\ SourcesExact
  /\ \A t \in CreateRequests :
       (t.op = "generate" /\ t.mode = "research") =>
         /\ t.body.sources.kind = "array"
         /\ \E chunks \in ChunkLists :
              ListsChunksWithUri(t.body.sources.items, chunks)
         /\ \A i \in 1..Len(t.body.sources.items) :
              /\ Truthy(t.body.sources.items[i].uri)
              /\ Truthy(t.body.sources.items[i].title)

\* C24 witness: a research record is on its way to the store with the two
\* citations left of three chunks: the second chunk had no URI, the third no
\* title
C24_Witness ==
  \E t \in CreateRequests :
    /\ t.op = "generate" /\ t.mode = "research" /\ t.pc = "sent"
    /\ t.body.sources = SrcArray(<<[title |-> "A", uri |-> "u1"],
                                   [title |-> "Source", uri |-> "u2"]>>)

\* The provider calls in flight: a Gateway operation of handleGenerate awaits
\* the provider
AwaitsProvider(u) ==
  /\ u.op = "generate"
  /\ u.pc \in {"provider", "issue"}

\* C25 as claimed: with a non-empty key saved in local storage, a handleGenerate
\* whose inputs pass the checks of its mode, and whose key dialog (video-gen
\* without hasKey) ends with a key selected, reaches the provider call of the
\* mode with the saved key, whether or not GEMINI_API_KEY is set.
C25_SavedKeyReachesProvider ==
  [][/\ (/\ HandleGenerate
         /\ savedKey
         /\ ~RequiredInputMissing
         /\ ~NeedsKeyDialog(mode, hasKey)) =>
           \E u \in BagToSet(tasks') :
             /\ AwaitsProvider(u)
             /\ u.mode = mode
             /\ u.apiKey = "lumina_api_key"
     /\ \A t \in InFlight :
          (/\ LeavesKeyDialog(t)
           /\ savedKey
           /\ hasKey') =>
             \E u \in BagToSet(tasks') :
               /\ AwaitsProvider(u)
               /\ u.mode = t.mode
               /\ u.apiKey = "lumina_api_key"]_vars

\* C26: without the credential interface checkVeoKey answers true and the key
\* dialog does nothing: the first effect sets hasKey, and a video generation
\* that goes through the key gate always comes out of it with hasKey set, the
\* key selection untouched, and goes on (to the provider call, or to the check
\* of the environment key); with the interface, checkVeoKey answers what
\* hasSelectedApiKey reports, in the first effect and after the dialog.
C26_NoInterfaceMeansKey ==
  [][/\ ~aistudio => checkVeoKey
     /\ aistudio => (checkVeoKey = keySelected)
     /\ \A t \in InFlight :
          /\ InitEffect(t) =>
               /\ ~aistudio => hasKey'
               /\ aistudio => (hasKey' = keySelected)
          /\ LeavesKeyDialog(t) =>
               /\ aistudio => (hasKey' = keySelected')
               /\ ~aistudio =>
                    /\ hasKey'
                    /\ keySelected' = keySelected
                    /\ \/ /\ envKey
                          /\ \E u \in BagToSet(tasks') : u.op = "generate" /\ u.pc = "issue"
                          /\ isGenerating'
                       \/ /\ ~envKey
                          /\ error' = GenericMessage]_vars

\* C26 witness: without the credential interface, a video generation is at
\* the key gate (the key flag was cleared by an expiry)
C26_Witness ==
  /\ ~aistudio
  /\ ~hasKey
  /\ \E t \in InFlight : t.op = "generate" /\ t.pc = "dialog"

\* The component state a handleGenerate captured when it was started
Captured(t) == <<t.mode, t.prompt, t.image, t.audio, t.aspect>>

\* The awaits on the path of generateVideo
VideoAwaits == {"dialog", "issue", "wait", "query", "download"}

\* C27: switching the mode changes the mode and nothing else (the prompt, the
\* uploaded image, the recording, the aspect ratio, hasKey, error, isGenerating,
\* the list, the store and the handlers in flight stay as they are); a
\* generation in flight keeps the mode and the inputs it was started with at
\* every step, stays on the path of that mode, sends a record of that mode's
\* type, label and asset, and lists it under that type, whatever the mode is
\* by then.
C27_ModeSwitchChangesOnlyMode ==
  [][/\ mode' # mode =>
          UNCHANGED <<prompt, uploadedImage, recordedAudio, aspectRatio, hasKey, error,
                      isGenerating, results, env, db, clock, tasks>>
     /\ \A t \in InFlight :
          t.op = "generate" =>
            /\ \A u \in BagToSet(tasks') :
                 (u.op = "generate" /\ mode' # mode) => Captured(u) = Captured(t)
            /\ \A u \in BagToSet(tasks') :
                 (u.op = "generate" /\ CopiesIn(t, tasks') < CopiesIn(t, tasks)) =>
                   Captured(u) = Captured(t)
            /\ t.pc \in VideoAwaits => t.mode = "video-gen"
            /\ t.pc = "provider" => t.mode # "video-gen"
            /\ t.pc \in {"sent", "answered"} =>
                 /\ t.body.type = ResultType(t.mode)
                 /\ t.body.prompt = PromptOrLabel(t.mode, t.prompt)
                 /\ t.mode = "analyze" => t.body.data = DataUri(t.image)
                 /\ t.mode = "transcribe" => t.body.data = DataUri(t.audio)
                 /\ t.mode = "video-gen" => t.body.data = DataUri("V")
            /\ (HandleGenerateSaved(t) /\ t.resp.status = "ok") =>
                 /\ results'[1].type = ResultType(t.mode)
                 /\ results'[1].prompt = PromptOrLabel(t.mode, t.prompt)
                 /\ mode' = mode]_vars

\* C27 witness: the mode was switched to video-gen while a transcription was
\* in flight; its record is on its way to the store as a transcription
C27_Witness ==
  /\ mode = "video-gen"
  /\ isGenerating
  /\ \E t \in InFlight :
       /\ t.op = "generate" /\ t.pc = "sent"
       /\ t.mode = "transcribe"
       /\ t.body.type = "transcription"
       /\ t.body.data = DataUri(AudioR)

\* upscaleImage of the handleUpscale t returns null (an answer without an
\* inline part): the handler skips the create request and returns through
\* finally
UpscaleReturnsNothing(t) ==
  /\ t.op = "upscale" /\ t.pc = "provider"
  /\ upscaleImage("nothing").thrown = ""
  /\ ~Truthy(upscaleImage("nothing").url)
  /\ Finish(t)
  /\ ~isGenerating'
  /\ UNCHANGED error

\* C28 as claimed: whenever a provider operation returns neither an asset nor a
\* text, in handleGenerate and in handleUpscale alike, an error is shown and no
\* record is sent, stored or listed.
C28_EmptyResultShown ==
  [][\A t \in InFlight :
       (ReturnsNothing(t) \/ UpscaleReturnsNothing(t)) =>
         /\ error' # Null
         /\ error' \in {GenericMessage, UpscaleMessage}
         /\ Finish(t)
         /\ UNCHANGED <<store, seq, results>>]_vars

TranscribeInstruction == <<"Transcribe this audio accurately.">>

\* The request of a transcription is the same for every prompt, image and
\* aspect ratio
TranscribeRequestFixed ==
  \A audio \in Audios : \A p1, p2 \in Prompts : \A i1, i2 \in Images :
    \A r1, r2 \in Ratios :
      /\ ProviderRequest("transcribe", p1, i1, audio, r1)
           = ProviderRequest("transcribe", p2, i2, audio, r2)
      /\ ProviderRequest("transcribe", p1, i1, audio, r1)
           = Request("transcribeAudio", audio, TranscribeInstruction, "")

\* C29: in transcribe mode the request sent to the provider is determined by
\* the recording: it carries the recording and the fixed instruction, the same
\* for every prompt; the prompt reaches only the label of the record sent to
\* the store, whose type and data do not depend on it.
C29_TranscribeIgnoresPrompt ==
  /\ TranscribeRequestFixed
  /\ \A t \in InFlight :
       (t.op = "generate" /\ t.mode = "transcribe") =>
         /\ t.pc \in {"provider", "sent", "answered"} =>
              t.request = Request("transcribeAudio", t.audio, TranscribeInstruction, "")
         /\ t.pc \in {"sent", "answered"} =>
              /\ t.body.prompt = IF t.prompt = EmptyPrompt THEN <<"Generation">> ELSE t.prompt
              /\ t.body.type = "transcription"
              /\ t.body.data = DataUri(t.audio)

\* C29 witness: a transcription started with a prompt typed awaits the
\* provider, its request carrying the recording and the fixed instruction
C29_Witness ==
  \E t \in InFlight :
    /\ t.op = "generate" /\ t.mode = "transcribe" /\ t.pc = "provider"
    /\ t.prompt = UserPrompt
    /\ t.audio = AudioR
    /\ t.request.media = AudioR
    /\ t.request.text # t.prompt

\* The label the claim gives a record whose generation had no prompt
DefaultLabel(m) ==
  CASE m = "image-edit" -> <<"Image Edit">>
    [] m = "analyze" -> <<"Image Analysis">>
    [] OTHER -> <<"Generation">>

\* C30: every create request of handleGenerate carries a non-empty prompt, the
\* user's prompt when there is one and otherwise the label of the mode ("Image
\* Edit", "Image Analysis", "Generation"); so the store never rejects a create
\* of handleGenerate for a missing prompt (a rejected one lacks its data).
C30_PromptNeverEmpty ==
  /\ \A m \in Modes : \A p \in Prompts :
       /\ TruthyPrompt(PromptOrLabel(m, p))
       /\ PromptOrLabel(m, p) = IF p # EmptyPrompt THEN p ELSE DefaultLabel(m)
  /\ \A t \in CreateRequests :
       t.op = "generate" =>
         /\ t.body.prompt # EmptyPrompt
         /\ t.body.prompt = IF t.prompt # EmptyPrompt THEN t.prompt ELSE DefaultLabel(t.mode)
         /\ Truthy(t.body.type)
         /\ t.resp.status = "400" => t.body.data = ""

\* C30 witness: the create request of an image edit started without a prompt
\* is in flight, labelled "Image Edit"
C30_Witness ==
  \E t \in CreateRequests :
    /\ t.op = "generate" /\ t.mode = "image-edit" /\ t.pc = "sent"
    /\ t.prompt = EmptyPrompt
    /\ t.body.prompt = <<"Image Edit">>

\* A video generation polls a job that the provider never reports done
NeverDonePolling ==
  \E t \in InFlight :
    /\ t.op = "generate" /\ t.mode = "video-gen"
    /\ t.doneAt = Never
    /\ t.pc \in {"wait", "query"}

\* The poller of a job that never gets done has sent a status query
NeverDoneQuerying ==
  \E t \in InFlight :
    t.op = "generate" /\ t.doneAt = Never /\ t.pc = "query"

\* A video generation polls or downloads a job that gets done
DoneJobPolling ==
  \E t \in InFlight :
    /\ t.op = "generate" /\ t.mode = "video-gen"
    /\ t.doneAt # Never
    /\ t.pc \in {"wait", "query", "download"}

\* C31 as claimed: the poller has no attempt bound.  When the job gets done
\* and every call settles, generateVideo returns or raises and isGenerating
\* becomes false.  When the job never gets done, generateVideo leaves its loop
\* only by a failing status query, sends status queries again and again, and
\* isGenerating stays true as long as it polls.
C31_PollingUnbounded ==
  /\ DoneJobPolling ~> ~isGenerating
  /\ [](NeverDonePolling => isGenerating)
  /\ [][(NeverDonePolling /\ ~NeverDonePolling') => error' \in FailureMessages]_vars
  /\ [](NeverDonePolling => <>(NeverDoneQuerying \/ ~NeverDonePolling))

\* The job of the video generation t has no URI and is reported done by the
\* status query t awaits
DoneWithoutUri(t) ==
  /\ t.op = "generate" /\ t.mode = "video-gen"
  /\ t.pc = "query"
  /\ ~t.hasUri
  /\ HandleDone(t.doneAt, Count(t.queries))

\* A generation that ends as a failure with nothing sent: the generic message,
\* hasKey as it was, no download and no create request, store and list as
\* they were
FailsUnsent(t) ==
  /\ Finish(t)
  /\ error' = GenericMessage
  /\ hasKey' = hasKey
  /\ ~isGenerating'
  /\ t.downloads = 0 /\ ~t.auth
  /\ t.body = NoBody
  /\ UNCHANGED <<store, seq, results>>

\* C32: when the video job is done without a URI, generateVideo requests no
\* download and returns null, and handleGenerate ends as a failure: the generic
\* message, hasKey unchanged, nothing sent, stored or listed (unless the status
\* query itself fails with the credential not found); a download is requested
\* only for a job that is done and has a URI.
C32_NoUriNoDownload ==
  [][/\ \A t \in InFlight :
          /\ (DoneWithoutUri(t) /\ CopiesIn(t, tasks') < CopiesIn(t, tasks)) =>
               FailsUnsent(t) \/ VideoKeyNotFound(t)
          /\ (/\ t.op = "generate" /\ t.pc \in {"issue", "query"}
              /\ HandleGenerateSettled(t, Returned(Null, Undefined, SrcUndefined))) =>
               FailsUnsent(t)
     /\ \A u \in BagToSet(tasks') :
          (u.op = "generate" /\ u.pc = "download") => (u.hasUri /\ u.opDone)]_vars

\* C32 witness: a video generation awaits the status query at which its job,
\* which has no URI, is done; no download has been requested
C32_Witness ==
  \E t \in InFlight :
    /\ DoneWithoutUri(t)
    /\ t.doneAt = 2 /\ t.queries = 1
    /\ t.downloads = 0
    /\ isGenerating /\ hasKey

\* C33 as claimed: when a delete request of clearHistory fails, by a network
\* error or by a status that is not OK, the in-memory list is not emptied;
\* clearHistory empties the list only when every entry it went through is gone
\* from the store.
C33_ClearEmptiesOnlyAfterDeletes ==
  [][\A t \in InFlight :
       (/\ t.op = "clear" /\ t.pc = "answered"
        /\ ClearHistoryNext(t)) =>
         /\ t.resp.status \in {"400", "500", "neterr"} =>
              (results' = results /\ results' # << >>)
         /\ (results' = << >> /\ results # << >>) =>
              \A k \in 1..Len(t.results) : t.results[k].id \notin StoredIds]_vars

\* A step in which the handleGenerate t leaves through its catch block: from
\* the provider call, the poller or the download (a failure, or a result
\* without content), from a create request the network failed, or from the
\* key dialog into a try block that finds no environment key
LeavesByCatch(t) ==
  /\ t.op = "generate"
  /\ Finish(t)
  /\ \/ t.pc \in {"provider", "issue", "wait", "query", "download"}
     \/ t.pc = "answered" /\ t.resp.status = "neterr"
     \/ t.pc = "dialog" /\ hasKey' /\ ~envKey

\* C34 as claimed: every error raised in a handleGenerate is caught in it and
\* shown: the expiry message with hasKey cleared for API_KEY_EXPIRED, the
\* generic message with hasKey untouched for every other error, isGenerating
\* false afterwards; no error of the key dialog, the provider, the
\* materializer or the store leaves the handler uncaught.
C34_NoErrorEscapes ==
  [][/\ \A u \in BagToSet(tasks') : u.pc # "unhandled"
     /\ \A t \in InFlight :
          LeavesByCatch(t) =>
            /\ error' \in FailureMessages
            /\ ~isGenerating'
            /\ error' = ExpiredKeyMessage => ~hasKey'
            /\ (error' = GenericMessage /\ t.pc # "dialog") => hasKey' = hasKey
     /\ ClickEndsWithError =>
          (error' = GenericMessage /\ ~isGenerating' /\ hasKey' = hasKey)]_vars

\* A handleGenerate past validation and the key gate, or a handleUpscale: it
\* has run setIsGenerating(true) and has not returned
Generating(t) ==
  /\ t.op \in {"generate", "upscale"}
  /\ t.pc \notin {"dialog", "unhandled"}

\* C35: a handleGenerate past validation and the key gate, and a handleUpscale
\* of an image or analysis result, holds isGenerating true while it runs,
\* returns with isGenerating false on success and on every failure path, and
\* does return once its awaited provider and store calls have settled.
C35_GeneratingSettles ==
  /\ [](\A t \in InFlight : Generating(t) => isGenerating)
  /\ [][\A t \in InFlight : (Generating(t) /\ Finish(t)) => ~isGenerating']_vars
  /\ (\E t \in InFlight : Generating(t)) ~> (Quiet /\ ~isGenerating)

\* A failed upscale of a stored result has returned
C35_Witness ==
  /\ Quiet
  /\ ~isGenerating
  /\ error = UpscaleMessage
  /\ results # << >>

\* The step in which the handleGenerate t returns from its success branch: the
\* create request was answered OK with the stored record
ReturnsStored(t) ==
  /\ t.op = "generate" /\ t.pc = "answered"
  /\ t.resp.status = "ok"
  /\ Finish(t)

\* The step in which the handleGenerate t returns any other way: an error was
\* caught, the key dialog closed without a key, or the create request was
\* answered with a status that is not OK
ReturnsUnstored(t) ==
  /\ t.op = "generate"
  /\ ~(t.pc = "answered" /\ t.resp.status = "ok")
  /\ Finish(t)

\* C36: a handleGenerate that returns with the record stored empties the
\* prompt and drops the recording, and leaves the uploaded image, the mode,
\* the aspect ratio and hasKey as they are; one that fails, or whose create
\* request is answered with a status that is not OK, leaves the prompt, the
\* recording and the uploaded image as they were when it was invoked.
C36_ClearsInputsOnlyWhenStored ==
  [][/\ \A t \in InFlight :
          /\ ReturnsStored(t) =>
               /\ prompt' = EmptyPrompt
               /\ recordedAudio' = Null
               /\ uploadedImage' = uploadedImage /\ uploadedImage' = t.image
               /\ mode' = mode /\ mode' = t.mode
               /\ aspectRatio' = aspectRatio /\ aspectRatio' = t.aspect
               /\ hasKey' = hasKey
          /\ ReturnsUnstored(t) =>
               /\ prompt' = prompt /\ prompt' = t.prompt
               /\ recordedAudio' = recordedAudio /\ recordedAudio' = t.audio
               /\ uploadedImage' = uploadedImage /\ uploadedImage' = t.image
     /\ ClickEndsWithError => UNCHANGED <<prompt, recordedAudio, uploadedImage>>]_vars

\* A transcription of a recording with a typed prompt has been stored: prompt
\* and recording are gone, the uploaded image is still there
C36_Witness ==
  /\ Quiet
  /\ results # << >>
  /\ results[1].type = "transcription"
  /\ results[1].prompt = UserPrompt
  /\ prompt = EmptyPrompt
  /\ recordedAudio = Null
  /\ uploadedImage = ImageX

\* The record type the claim gives each mode
ClaimedType(m) ==
  CASE m \in {"image-edit", "generate-image"} -> "image"
    [] m = "video-gen" -> "video"
    [] m = "analyze" -> "analysis"
    [] m = "speech" -> "audio"
    [] m = "transcribe" -> "transcription"
    [] m = "research" -> "research"
    [] m = "summarize" -> "summary"

\* The step in which the store handles the create request of the
\* handleGenerate t and its statement does not throw
StoreHandlesCreate(t) ==
  /\ t.op = "generate" /\ t.pc = "sent"
  /\ \E u \in BagToSet(tasks') :
       /\ u = [t EXCEPT !.pc = "answered", !.resp = u.resp]
       /\ u.resp.status \in {"ok", "400"}

\* The row the step has appended to the store has the claimed type and asset
\* for the handleGenerate t
PersistsClaimed(t) ==
  /\ Len(store') = Len(store) + 1
  /\ LET row == store'[Len(store')]
     IN /\ row.type = ClaimedType(t.mode)
        /\ t.mode = "analyze" => row.data = DataUri(t.image)
        /\ t.mode = "transcribe" => row.data = DataUri(t.audio)
        /\ t.mode \in {"research", "summarize"} => row.data = ""

\* C37 as claimed: the record a handleGenerate persists has the type its mode
\* determines (image for image-edit and generate-image, video, analysis,
\* audio, transcription, research, summary); for analyze and transcribe its
\* asset is the data URI of the user's image or recording, for research and
\* summarize its asset is empty.
C37_TypeAndAssetByMode ==
  [][\A t \in InFlight : StoreHandlesCreate(t) => PersistsClaimed(t)]_vars

\* A body whose type, data or prompt is missing or empty
LacksRequired(body) ==
  \/ body.type \in {Undefined, ""}
  \/ body.data \in {Undefined, ""}
  \/ body.prompt = EmptyPrompt

\* The step in which the server answers the create request t with resp
CreateAnswered(t, resp) ==
  /\ t.op \in {"post", "generate", "upscale"} /\ t.pc = "sent"
  /\ [t EXCEPT !.pc = "answered", !.resp = resp] \in BagToSet(tasks')
  /\ resp.status # "neterr"

\* The step has appended one row that holds the five fields of the body
InsertedWhole(body) ==
  /\ Len(store') = Len(store) + 1
  /\ SubSeq(store', 1, Len(store)) = store
  /\ LET row == store'[Len(store')]
     IN /\ row.type = body.type
        /\ row.data = body.data
        /\ row.prompt = body.prompt
        /\ row.text = (IF body.text = Undefined THEN Null ELSE body.text)
        /\ IF TruthySrc(body.sources)
           THEN row.sources.items = body.sources.items
           ELSE ~TruthySrc(row.sources)

\* C38: a create request whose type, data or prompt is missing or empty is
\* answered with an error status and leaves the store as it is; every create
\* request either appends one row holding its five fields or leaves the store
\* as it is.
C38_CreateAllOrNothing ==
  [][\A t \in InFlight :
       \A resp \in {u.resp : u \in BagToSet(tasks')} :
         CreateAnswered(t, resp) =>
           /\ LacksRequired(t.body) =>
                (resp.status \in {"400", "500"} /\ store' = store /\ seq' = seq)
           /\ resp.status # "ok" => (store' = store /\ seq' = seq)
           /\ resp.status = "ok" => InsertedWhole(t.body)]_vars

\* A create request with an empty prompt, type and data given, has been
\* answered 400 while the store holds a row
C38_Witness ==
  /\ store # << >>
  /\ \E t \in InFlight :
       /\ t.op = "post" /\ t.pc = "answered"
       /\ t.resp.status = "400"
       /\ t.body.type = "image" /\ t.body.data = "data:X"
       /\ t.body.prompt = EmptyPrompt

\* The identifiers of the rows of the store, in the order of insertion
StoreIds == Ids(store)

\* No two positions of the list hold the same value
NoDuplicates(list) ==
  \A i, j \in 1..Len(list) : i # j => list[i] # list[j]

\* C39: the identifiers the store assigns are unique and strictly increasing
\* over its lifetime: each insert takes an identifier above every identifier
\* assigned before, whether or not its row is still stored, so that none is
\* used again after a delete; and the in-memory results list never holds two
\* entries with the same id.
C39_IdsUniqueAndIncreasing ==
  /\ [](/\ \A i, j \in 1..Len(store) : i < j => store[i].id < store[j].id
        /\ \A i \in 1..Len(store) : store[i].id \in 1..seq
        /\ NoDuplicates(Ids(results))
        /\ \A i \in 1..Len(results) : results[i].id \in 1..seq)
  /\ [][/\ seq' >= seq
        /\ \A id \in StoredIds' \ StoredIds : id = seq + 1 /\ seq' = id]_vars

\* An identifier has been deleted and a later one assigned: the store holds a
\* row above a gap, and the list holds two entries
C39_Witness ==
  /\ \E id \in 1..seq : id \notin StoredIds /\ \E i \in 1..Len(store) : store[i].id > id
  /\ Len(results) >= 2
=============================================================================
